---- MODULE Spec2Model ----
(***************************************************************************)
(* Model of the okxauto arbitrage-detection engine (package gookx and the  *)
(* getinsts command): symbol matching, mark-price diffing, order-book      *)
(* weighted pricing, arbitrage evaluation, fee estimation and the final    *)
(* profitability filter of the printers.                                   *)
(*                                                                         *)
(* float64 values are modelled as exact rationals [n, d] in lowest terms   *)
(* with d >= 0; d = 0 encodes the IEEE-754 specials (1/0 = +Inf,           *)
(* -1/0 = -Inf, 0/0 = NaN).  Rounding and signed zeros are not modelled.   *)
(* An instrument ID is the sequence of its "-"-separated parts.            *)
(***************************************************************************)
EXTENDS Integers, Sequences, FiniteSets, TLC

VARIABLES
    \* a single CalculateWeightedPrice call and its result
    orderBook, side, tradeSize, wpResult,
    \* main: position, flags and trading configuration
    pc, useOrderBook, topN, minDiff, tradingConfig,
    \* main: fetched data
    marginMarkPrices, swapMarkPrices, marginInstruments, swapInstruments,
    matchingSymbols, fees, borrowRates,
    \* main, mark-price mode: the instrument lists fused with the mark prices
    fusedMargin, fusedSwap,
    \* main: results of the two modes
    diffs, realResults, filteredResults, feesMap, fundingMap,
    \* CalculateRealArbitrageOpportunities: loop position and locals
    idx, marginOrderBook, swapOrderBook, results,
    \* what was printed: result rows and warnings
    output, warnings

wpVars == <<orderBook, side, tradeSize, wpResult>>
flagVars == <<useOrderBook, topN, minDiff, tradingConfig>>
fetchVars == <<marginMarkPrices, swapMarkPrices, marginInstruments, swapInstruments,
               matchingSymbols, fees, borrowRates>>
resultVars == <<diffs, realResults, filteredResults, feesMap, fundingMap>>
arbVars == <<idx, marginOrderBook, swapOrderBook, results>>
fusedVars == <<fusedMargin, fusedSwap>>
mainVars == <<pc, flagVars, fetchVars, fusedVars, resultVars, arbVars, output, warnings>>
vars == <<wpVars, mainVars>>

-----------------------------------------------------------------------------
(* float64 arithmetic *)

Abs(x) == IF x < 0 THEN -x ELSE x

Sign(x) == IF x < 0 THEN -1 ELSE IF x > 0 THEN 1 ELSE 0

RECURSIVE GCD(_, _)
GCD(a, b) == IF b = 0 THEN a ELSE GCD(b, a % b)

\* the float64 with value n/d
Float(n, d) ==
    IF d = 0 THEN [n |-> Sign(n), d |-> 0]
    ELSE LET g == GCD(Abs(n), Abs(d))
         IN  [n |-> (Sign(d) * n) \div g, d |-> Abs(d) \div g]

NaN == [n |-> 0, d |-> 0]
Zero == [n |-> 0, d |-> 1]
Num(k) == [n |-> k, d |-> 1]

IsNaN(x) == x.n = 0 /\ x.d = 0

FAdd(x, y) ==
    IF IsNaN(x) \/ IsNaN(y) THEN NaN
    ELSE IF x.d = 0 /\ y.d = 0 THEN (IF x.n = y.n THEN x ELSE NaN)
    ELSE Float(x.n * y.d + y.n * x.d, x.d * y.d)

FNeg(x) == [n |-> -x.n, d |-> x.d]

FSub(x, y) == FAdd(x, FNeg(y))

FMul(x, y) == IF IsNaN(x) \/ IsNaN(y) THEN NaN ELSE Float(x.n * y.n, x.d * y.d)

FDiv(x, y) ==
    IF IsNaN(x) \/ IsNaN(y) THEN NaN
    ELSE Float(x.n * y.d * (IF y.n < 0 THEN -1 ELSE 1), x.d * Abs(y.n))

\* x < y; every comparison with NaN is false
FLt(x, y) ==
    /\ ~IsNaN(x)
    /\ ~IsNaN(y)
    /\ IF x.d = 0 /\ y.d = 0 THEN x.n < y.n ELSE x.n * y.d < y.n * x.d

FGt(x, y) == FLt(y, x)

FLe(x, y) == ~IsNaN(x) /\ ~IsNaN(y) /\ ~FLt(y, x)

FGe(x, y) == FLe(y, x)

FAbs(x) == [n |-> Abs(x.n), d |-> x.d]

-----------------------------------------------------------------------------
(* Order books and CalculateWeightedPrice *)

OrderBookLevel(price, size) == [Price |-> price, Size |-> size]

NoResult == [Side |-> "none"]

\* a side that does not cap the fill at the remaining size
WalkLevelWholeLevel(st, level) ==
    IF FLe(st.remainingSize, Zero) THEN st
    ELSE [totalCost     |-> FAdd(st.totalCost, FMul(level.Size, level.Price)),
          remainingSize |-> FSub(st.remainingSize, level.Size),
          liquidity     |-> FAdd(st.liquidity, FMul(level.Size, level.Price))]

\* one iteration of the level loop; st = [totalCost, remainingSize, liquidity]
WalkLevel(st, level) ==
    IF FLe(st.remainingSize, Zero) THEN st
    ELSE LET levelSize == IF FLt(st.remainingSize, level.Size)
                          THEN st.remainingSize ELSE level.Size
             cost == FMul(levelSize, level.Price)
         IN  [totalCost     |-> FAdd(st.totalCost, cost),
              remainingSize |-> FSub(st.remainingSize, levelSize),
              liquidity     |-> FAdd(st.liquidity, FMul(levelSize, level.Price))]

RECURSIVE WalkLevels(_, _, _)
WalkLevels(levels, i, st) ==
    IF i > Len(levels) THEN st
    ELSE WalkLevels(levels, i + 1, WalkLevel(st, levels[i]))

\* buy and sell read the wrong side
SideLevelsSwapped(book, s) ==
    IF s = "buy" THEN book.Bids
    ELSE IF s = "sell" THEN book.Asks
    ELSE <<>>

\* the levels the call reads (none for an unknown side)
SideLevels(book, s) ==
    IF s = "buy" THEN book.Asks
    ELSE IF s = "sell" THEN book.Bids
    ELSE <<>>

\* a shortfall that still reports the price of the part that was filled
InsufficientResultPartial(book, s, size, st) ==
    [Symbol |-> book.InstID, Side |-> s, TradeSize |-> size,
     WeightedPrice |-> FDiv(st.totalCost, FSub(size, st.remainingSize)),
     TotalCost |-> st.totalCost, Liquidity |-> st.liquidity,
     HasEnoughLiquidity |-> FALSE, Slippage |-> Zero]

\* the result returned when remainingSize > 0 after the walk
InsufficientResult(book, s, size, st) ==
    [Symbol |-> book.InstID, Side |-> s, TradeSize |-> size,
     WeightedPrice |-> Zero, TotalCost |-> Zero, Liquidity |-> st.liquidity,
     HasEnoughLiquidity |-> FALSE, Slippage |-> Zero]

\* a slippage that takes weighted - best for a sell as for a buy
SlippagePctBuyFormulaOnly(s, weightedPrice, bestPrice) ==
    FMul(FDiv(FSub(weightedPrice, bestPrice), bestPrice), Num(100))

\* slippage as percentage difference from the best price
SlippagePct(s, weightedPrice, bestPrice) ==
    IF s = "buy"
    THEN FMul(FDiv(FSub(weightedPrice, bestPrice), bestPrice), Num(100))
    ELSE FMul(FDiv(FSub(bestPrice, weightedPrice), bestPrice), Num(100))

CalculateWeightedPrice(book, s, size) ==
    LET levels == SideLevels(book, s)
    IN  IF s \notin {"buy", "sell"} \/ Len(levels) = 0
        THEN [err |-> TRUE, res |-> NoResult]
        ELSE
          LET bestPrice == levels[1].Price
              st == WalkLevels(levels, 1,
                        [totalCost |-> Zero, remainingSize |-> size, liquidity |-> Zero])
          IN  IF FGt(st.remainingSize, Zero)
              THEN [err |-> FALSE, res |-> InsufficientResult(book, s, size, st)]
              ELSE
                LET weightedPrice == FDiv(st.totalCost, size)
                IN  [err |-> FALSE,
                     res |-> [Symbol |-> book.InstID, Side |-> s, TradeSize |-> size,
                              WeightedPrice |-> weightedPrice, TotalCost |-> st.totalCost,
                              Liquidity |-> st.liquidity,
                              HasEnoughLiquidity |-> TRUE,
                              Slippage |-> SlippagePct(s, weightedPrice, bestPrice)]]

-----------------------------------------------------------------------------
(* Instruments, mark prices and the symbol matcher *)

\* the decimal strings of the model and the float64 strconv.ParseFloat gives
Numerals ==
    ("0" :> Zero) @@ ("99" :> Num(99)) @@ ("100" :> Num(100)) @@
    ("100.3" :> Float(1003, 10)) @@ ("101" :> Num(101)) @@ ("-1" :> Num(-1)) @@
    ("1" :> Num(1)) @@ ("2" :> Num(2))

ParseFloat(s) ==
    IF s = "" THEN [err |-> TRUE, val |-> Zero]
    ELSE IF s \in DOMAIN Numerals THEN [err |-> FALSE, val |-> Numerals[s]]
    ELSE [err |-> TRUE, val |-> Zero]

\* of the fields FuseData copies along, InstType stands for all but MarkPx
Instrument(instID, markPx) ==
    [InstID |-> instID, InstType |-> IF Len(instID) >= 3 THEN "SWAP" ELSE "MARGIN",
     MarkPx |-> markPx]

\* a fusion that takes the snapshot's price even when it is empty
FuseDataOverwriteAlways(instruments, markPrices) ==
    [i \in 1..Len(instruments) |->
        LET inst == instruments[i]
        IN  IF inst.InstID \in DOMAIN markPrices
            THEN [inst EXCEPT !.MarkPx = markPrices[inst.InstID].MarkPx]
            ELSE inst]

\* markPrices: a function from instrument IDs to MarkPrice records
FuseData(instruments, markPrices) ==
    [i \in 1..Len(instruments) |->
        LET inst == instruments[i]
        IN  IF inst.InstID \in DOMAIN markPrices /\ markPrices[inst.InstID].MarkPx # ""
            THEN [inst EXCEPT !.MarkPx = markPrices[inst.InstID].MarkPx]
            ELSE inst]

\* instID is the result of strings.Split(instID, "-"); an ID without "-" is
\* its own single part
ExtractBaseSymbol(instID) == IF Len(instID) >= 2 THEN instID[1] ELSE instID[1]

Max(S) == CHOOSE x \in S : \A y \in S : y <= x

\* a map in which the first instrument of a key is kept
SymbolMapFirstWins(instruments) ==
    LET base(i) == ExtractBaseSymbol(instruments[i].InstID)
        keys == {base(i) : i \in 1..Len(instruments)}
    IN  [b \in keys |->
            instruments[CHOOSE i \in 1..Len(instruments) :
                           base(i) = b /\ \A j \in 1..(i - 1) : base(j) # b]]

\* the map built by "m[ExtractBaseSymbol(inst.InstID)] = inst" over the list
SymbolMap(instruments) ==
    LET base(i) == ExtractBaseSymbol(instruments[i].InstID)
        keys == {base(i) : i \in 1..Len(instruments)}
    IN  [b \in keys |-> instruments[Max({i \in 1..Len(instruments) : base(i) = b})]]

\* every enumeration of the finite set S without repetition
Orderings(S) ==
    {f \in [1..Cardinality(S) -> S] : \A i, j \in 1..Cardinality(S) : f[i] = f[j] => i = j}

MatchingSymbol(baseSymbol, margin, swap) ==
    [BaseSymbol |-> baseSymbol, Margin |-> margin, Swap |-> swap]

\* a matcher that emits a pair for every margin key, matched or not
FindMatchingSymbolsAllMargin(marginInsts, swapInsts) ==
    LET marginSymbols == SymbolMap(marginInsts)
        swapSymbols == SymbolMap(swapInsts)
    IN  {[i \in 1..Len(order) |->
             MatchingSymbol(order[i], marginSymbols[order[i]],
                            IF order[i] \in DOMAIN swapSymbols
                            THEN swapSymbols[order[i]] ELSE marginSymbols[order[i]])] :
         order \in Orderings(DOMAIN marginSymbols)}

\* the range over marginSymbols visits the keys in an unspecified order: the
\* set of slices the call can return
FindMatchingSymbols(marginInsts, swapInsts) ==
    LET marginSymbols == SymbolMap(marginInsts)
        swapSymbols == SymbolMap(swapInsts)
        visited(order) == SelectSeq(order, LAMBDA b : b \in DOMAIN swapSymbols)
    IN  {[i \in 1..Len(visited(order)) |->
             MatchingSymbol(visited(order)[i], marginSymbols[visited(order)[i]],
                            swapSymbols[visited(order)[i]])] :
         order \in Orderings(DOMAIN marginSymbols)}

-----------------------------------------------------------------------------
(* CalculateTopMarkPxDiffs *)

\* a percentage taken relative to the margin price instead of the mean
PercentDiffOfMargin(marginPx, swapPx) ==
    FDiv(FMul(Num(100), FAbs(FSub(swapPx, marginPx))), marginPx)

PercentDiffOf(marginPx, swapPx) ==
    LET actualDiff == FSub(swapPx, marginPx)
        meanPx == FDiv(FAdd(marginPx, swapPx), Num(2))
    IN  FDiv(FMul(Num(100), FAbs(actualDiff)), meanPx)

\* an iteration that reports equal prices as contango
DiffOfMatchContangoOnTie(match, minDiffArg) ==
    LET m == ParseFloat(match.Margin.MarkPx)
        w == ParseFloat(match.Swap.MarkPx)
        actualDiff == FSub(w.val, m.val)
        percentDiff == PercentDiffOf(m.val, w.val)
        isContango == FGe(actualDiff, Zero)
    IN  IF m.err THEN [keep |-> FALSE, warn |-> {<<"margin markPx", match.BaseSymbol>>}]
        ELSE IF w.err THEN [keep |-> FALSE, warn |-> {<<"swap markPx", match.BaseSymbol>>}]
        ELSE IF FLe(m.val, Zero) \/ FLe(w.val, Zero) THEN [keep |-> FALSE, warn |-> {}]
        ELSE IF FLt(percentDiff, minDiffArg) THEN [keep |-> FALSE, warn |-> {}]
        ELSE [keep |-> TRUE, warn |-> {},
              diff |-> [BaseSymbol    |-> match.BaseSymbol,
                        MarginMarkPx  |-> m.val,
                        SwapMarkPx    |-> w.val,
                        PercentDiff   |-> percentDiff,
                        ActualDiff    |-> actualDiff,
                        IsContango    |-> isContango,
                        TermStructure |-> IF isContango THEN "Contango"
                                          ELSE "Backwardation"]]

\* an iteration without the test for non-positive prices
DiffOfMatchNoPositiveCheck(match, minDiffArg) ==
    LET m == ParseFloat(match.Margin.MarkPx)
        w == ParseFloat(match.Swap.MarkPx)
        actualDiff == FSub(w.val, m.val)
        percentDiff == PercentDiffOf(m.val, w.val)
        isContango == FGt(actualDiff, Zero)
    IN  IF m.err THEN [keep |-> FALSE, warn |-> {<<"margin markPx", match.BaseSymbol>>}]
        ELSE IF w.err THEN [keep |-> FALSE, warn |-> {<<"swap markPx", match.BaseSymbol>>}]
        ELSE IF FLt(percentDiff, minDiffArg) THEN [keep |-> FALSE, warn |-> {}]
        ELSE [keep |-> TRUE, warn |-> {},
              diff |-> [BaseSymbol    |-> match.BaseSymbol,
                        MarginMarkPx  |-> m.val,
                        SwapMarkPx    |-> w.val,
                        PercentDiff   |-> percentDiff,
                        ActualDiff    |-> actualDiff,
                        IsContango    |-> isContango,
                        TermStructure |-> IF isContango THEN "Contango"
                                          ELSE "Backwardation"]]

\* one iteration of the loop over matches: the DiffResult appended, if any,
\* and the warning logged, if any
DiffOfMatch(match, minDiffArg) ==
    LET m == ParseFloat(match.Margin.MarkPx)
        w == ParseFloat(match.Swap.MarkPx)
        actualDiff == FSub(w.val, m.val)
        percentDiff == PercentDiffOf(m.val, w.val)
        isContango == FGt(actualDiff, Zero)
    IN  IF m.err THEN [keep |-> FALSE, warn |-> {<<"margin markPx", match.BaseSymbol>>}]
        ELSE IF w.err THEN [keep |-> FALSE, warn |-> {<<"swap markPx", match.BaseSymbol>>}]
        ELSE IF FLe(m.val, Zero) \/ FLe(w.val, Zero) THEN [keep |-> FALSE, warn |-> {}]
        ELSE IF FLt(percentDiff, minDiffArg) THEN [keep |-> FALSE, warn |-> {}]
        ELSE [keep |-> TRUE, warn |-> {},
              diff |-> [BaseSymbol    |-> match.BaseSymbol,
                        MarginMarkPx  |-> m.val,
                        SwapMarkPx    |-> w.val,
                        PercentDiff   |-> percentDiff,
                        ActualDiff    |-> actualDiff,
                        IsContango    |-> isContango,
                        TermStructure |-> IF isContango THEN "Contango"
                                          ELSE "Backwardation"]]

RECURSIVE CollectDiffs(_, _, _)
CollectDiffs(matches, i, minDiffArg) ==
    IF i > Len(matches) THEN <<>>
    ELSE LET d == DiffOfMatch(matches[i], minDiffArg)
         IN  (IF d.keep THEN <<d.diff>> ELSE <<>>) \o CollectDiffs(matches, i + 1, minDiffArg)

DiffWarnings(matches, minDiffArg) ==
    UNION {DiffOfMatch(matches[i], minDiffArg).warn : i \in 1..Len(matches)}

\* a "sort" that returns the slice as it is
SortSliceDescendingNoSort(rs) == {rs}

\* sort.Slice with less(i, j) = rs[i].PercentDiff > rs[j].PercentDiff: the sort
\* is not stable, so every descending arrangement of rs is a possible outcome
SortSliceDescending(rs) ==
    {[i \in 1..Len(rs) |-> rs[o[i]]] :
        o \in {q \in Orderings(1..Len(rs)) :
                 \A i \in 1..(Len(rs) - 1) :
                    ~FGt(rs[q[i + 1]].PercentDiff, rs[q[i]].PercentDiff)}}

\* a truncation that keeps one result too many
TruncateOneMore(rs, n) == IF Len(rs) > n + 1 THEN SubSeq(rs, 1, n + 1) ELSE rs

\* if len(rs) > n { rs = rs[:n] }
Truncate(rs, n) == IF Len(rs) > n THEN SubSeq(rs, 1, n) ELSE rs

\* the set of slices the call can return
CalculateTopMarkPxDiffs(matches, topNArg, minDiffArg) ==
    {Truncate(sorted, topNArg) :
        sorted \in SortSliceDescending(CollectDiffs(matches, 1, minDiffArg))}

-----------------------------------------------------------------------------
(* CalculateRealArbitrageOpportunities: the body of the loop over matches *)

FetchFailed == [InstID |-> <<>>, Bids |-> <<>>, Asks |-> <<>>, failed |-> TRUE]
NoBook == [InstID |-> <<>>, Bids |-> <<>>, Asks |-> <<>>, failed |-> FALSE]
Book(instID, bids, asks) == [InstID |-> instID, Bids |-> bids, Asks |-> asks, failed |-> FALSE]

\* strconv.ParseFloat(s, 64) on a level field: a decimal numeral or an error
StrconvParseFloat(s) ==
    IF s \in DOMAIN Numerals THEN [err |-> FALSE, val |-> Numerals[s]]
    ELSE [err |-> TRUE, val |-> Zero]

\* a level of the response is a sequence of strings: price, size, ...; a level
\* with fewer than two fields or an unparsable price or size is skipped, every
\* other level is appended in the order of the response
RECURSIVE parseOrderBookLevels(_)
parseOrderBookLevels(rawData) ==
    IF rawData = <<>> THEN <<>>
    ELSE LET level == Head(rawData)
             rest == parseOrderBookLevels(Tail(rawData))
         IN  IF Len(level) < 2 THEN rest
             ELSE LET price == StrconvParseFloat(level[1])
                      size == StrconvParseFloat(level[2])
                  IN  IF price.err \/ size.err THEN rest
                      ELSE <<OrderBookLevel(price.val, size.val)>> \o rest

\* the book FetchOrderBook returns for a response carrying these raw sides
OrderBookOf(instID, rawBids, rawAsks) ==
    Book(instID, parseOrderBookLevels(rawBids), parseOrderBookLevels(rawAsks))

Skip(warn) == [emit |-> FALSE, warn |-> warn]

\* a liquidity check that forgets the swap sell leg
HasEnoughLiquidityNoSwapSell(marginBuy, marginSell, swapBuy, swapSell) ==
    marginBuy.HasEnoughLiquidity /\ marginSell.HasEnoughLiquidity /\
    swapBuy.HasEnoughLiquidity

HasEnoughLiquidity(marginBuy, marginSell, swapBuy, swapSell) ==
    marginBuy.HasEnoughLiquidity /\ marginSell.HasEnoughLiquidity /\
    swapBuy.HasEnoughLiquidity /\ swapSell.HasEnoughLiquidity

ExceedsSlippage(marginBuy, marginSell, swapBuy, swapSell, config) ==
    \/ FGt(marginBuy.Slippage, config.MaxSlippage)
    \/ FGt(marginSell.Slippage, config.MaxSlippage)
    \/ FGt(swapBuy.Slippage, config.MaxSlippage)
    \/ FGt(swapSell.Slippage, config.MaxSlippage)

\* (sell - buy) / ((sell + buy) / 2) * 100
SpreadPercent(sell, buy) ==
    FMul(FDiv(FSub(sell, buy), FDiv(FAdd(sell, buy), Num(2))), Num(100))

\* a result that reports the figures of the two legs the direction does not use
ArbResultUnusedLegs(match, mb, ms, sb, ss, percent, diff, contango) ==
    [BaseSymbol         |-> match.BaseSymbol,
     MarginBuyPrice     |-> mb.WeightedPrice,
     MarginSellPrice    |-> ms.WeightedPrice,
     SwapBuyPrice       |-> sb.WeightedPrice,
     SwapSellPrice      |-> ss.WeightedPrice,
     PercentDiff        |-> percent,
     ActualDiff         |-> diff,
     IsContango         |-> contango,
     TermStructure      |-> IF contango THEN "Contango" ELSE "Backwardation",
     MarginLiquidity    |-> IF contango THEN ms.Liquidity ELSE mb.Liquidity,
     SwapLiquidity      |-> IF contango THEN sb.Liquidity ELSE ss.Liquidity,
     HasEnoughLiquidity |-> TRUE,
     MarginSlippage     |-> IF contango THEN ms.Slippage ELSE mb.Slippage,
     SwapSlippage       |-> IF contango THEN sb.Slippage ELSE ss.Slippage]

ArbResult(match, mb, ms, sb, ss, percent, diff, contango) ==
    [BaseSymbol         |-> match.BaseSymbol,
     MarginBuyPrice     |-> mb.WeightedPrice,
     MarginSellPrice    |-> ms.WeightedPrice,
     SwapBuyPrice       |-> sb.WeightedPrice,
     SwapSellPrice      |-> ss.WeightedPrice,
     PercentDiff        |-> percent,
     ActualDiff         |-> diff,
     IsContango         |-> contango,
     TermStructure      |-> IF contango THEN "Contango" ELSE "Backwardation",
     MarginLiquidity    |-> IF contango THEN mb.Liquidity ELSE ms.Liquidity,
     SwapLiquidity      |-> IF contango THEN ss.Liquidity ELSE sb.Liquidity,
     HasEnoughLiquidity |-> TRUE,
     MarginSlippage     |-> IF contango THEN mb.Slippage ELSE ms.Slippage,
     SwapSlippage       |-> IF contango THEN ss.Slippage ELSE sb.Slippage]

\* a choice that takes the larger percent whatever its sign
ChooseDirectionLargerOnly(match, mb, ms, sb, ss) ==
    LET contangoDiff == FSub(ss.WeightedPrice, mb.WeightedPrice)
        contangoPercent == SpreadPercent(ss.WeightedPrice, mb.WeightedPrice)
        backwardationDiff == FSub(ms.WeightedPrice, sb.WeightedPrice)
        backwardationPercent == SpreadPercent(ms.WeightedPrice, sb.WeightedPrice)
    IN  IF FGt(contangoPercent, backwardationPercent)
        THEN [emit |-> TRUE, warn |-> {},
              result |-> ArbResult(match, mb, ms, sb, ss, contangoPercent, contangoDiff, TRUE)]
        ELSE [emit |-> TRUE, warn |-> {},
              result |-> ArbResult(match, mb, ms, sb, ss, backwardationPercent,
                                   backwardationDiff, FALSE)]

\* "Determine which direction is more profitable"
ChooseDirection(match, mb, ms, sb, ss) ==
    LET contangoDiff == FSub(ss.WeightedPrice, mb.WeightedPrice)
        contangoPercent == SpreadPercent(ss.WeightedPrice, mb.WeightedPrice)
        backwardationDiff == FSub(ms.WeightedPrice, sb.WeightedPrice)
        backwardationPercent == SpreadPercent(ms.WeightedPrice, sb.WeightedPrice)
    IN  IF FGt(contangoPercent, backwardationPercent) /\ FGt(contangoPercent, Zero)
        THEN [emit |-> TRUE, warn |-> {},
              result |-> ArbResult(match, mb, ms, sb, ss, contangoPercent, contangoDiff, TRUE)]
        ELSE IF FGt(backwardationPercent, Zero)
        THEN [emit |-> TRUE, warn |-> {},
              result |-> ArbResult(match, mb, ms, sb, ss, backwardationPercent,
                                   backwardationDiff, FALSE)]
        ELSE Skip({})

\* an iteration that prices the swap legs for half the quantity
EvaluatePairHalfSwapSize(match, marginBook, swapBook, config) ==
    IF marginBook.failed THEN Skip({<<"margin order book", match.BaseSymbol>>})
    ELSE IF swapBook.failed THEN Skip({<<"swap order book", match.BaseSymbol>>})
    ELSE
      LET marginPrice == ParseFloat(match.Margin.MarkPx)
      IN  IF marginPrice.err \/ FLe(marginPrice.val, Zero) THEN Skip({})
          ELSE
            LET tradeSizeBase == FDiv(config.TradeSizeUSD, marginPrice.val)
                halfSize == FDiv(tradeSizeBase, Num(2))
                marginBuy == CalculateWeightedPrice(marginBook, "buy", tradeSizeBase)
                marginSell == CalculateWeightedPrice(marginBook, "sell", tradeSizeBase)
                swapBuy == CalculateWeightedPrice(swapBook, "buy", halfSize)
                swapSell == CalculateWeightedPrice(swapBook, "sell", halfSize)
            IN  IF marginBuy.err THEN Skip({<<"margin buy price", match.BaseSymbol>>})
                ELSE IF marginSell.err THEN Skip({<<"margin sell price", match.BaseSymbol>>})
                ELSE IF swapBuy.err THEN Skip({<<"swap buy price", match.BaseSymbol>>})
                ELSE IF swapSell.err THEN Skip({<<"swap sell price", match.BaseSymbol>>})
                ELSE IF ~HasEnoughLiquidity(marginBuy.res, marginSell.res,
                                            swapBuy.res, swapSell.res)
                THEN Skip({})
                ELSE IF ExceedsSlippage(marginBuy.res, marginSell.res,
                                        swapBuy.res, swapSell.res, config)
                THEN Skip({})
                ELSE ChooseDirection(match, marginBuy.res, marginSell.res,
                                     swapBuy.res, swapSell.res)

\* an iteration that prices the swap buy leg on the bids and the swap sell leg
\* on the asks
EvaluatePairSwapLegsCrossed(match, marginBook, swapBook, config) ==
    IF marginBook.failed THEN Skip({<<"margin order book", match.BaseSymbol>>})
    ELSE IF swapBook.failed THEN Skip({<<"swap order book", match.BaseSymbol>>})
    ELSE
      LET marginPrice == ParseFloat(match.Margin.MarkPx)
      IN  IF marginPrice.err \/ FLe(marginPrice.val, Zero) THEN Skip({})
          ELSE
            LET tradeSizeBase == FDiv(config.TradeSizeUSD, marginPrice.val)
                marginBuy == CalculateWeightedPrice(marginBook, "buy", tradeSizeBase)
                marginSell == CalculateWeightedPrice(marginBook, "sell", tradeSizeBase)
                swapBuy == CalculateWeightedPrice(swapBook, "sell", tradeSizeBase)
                swapSell == CalculateWeightedPrice(swapBook, "buy", tradeSizeBase)
            IN  IF marginBuy.err THEN Skip({<<"margin buy price", match.BaseSymbol>>})
                ELSE IF marginSell.err THEN Skip({<<"margin sell price", match.BaseSymbol>>})
                ELSE IF swapBuy.err THEN Skip({<<"swap buy price", match.BaseSymbol>>})
                ELSE IF swapSell.err THEN Skip({<<"swap sell price", match.BaseSymbol>>})
                ELSE IF ~HasEnoughLiquidity(marginBuy.res, marginSell.res,
                                            swapBuy.res, swapSell.res)
                THEN Skip({})
                ELSE IF ExceedsSlippage(marginBuy.res, marginSell.res,
                                        swapBuy.res, swapSell.res, config)
                THEN Skip({})
                ELSE ChooseDirection(match, marginBuy.res, marginSell.res,
                                     swapBuy.res, swapSell.res)

\* one iteration for match, given what the two FetchOrderBook calls returned
EvaluatePair(match, marginBook, swapBook, config) ==
    IF marginBook.failed THEN Skip({<<"margin order book", match.BaseSymbol>>})
    ELSE IF swapBook.failed THEN Skip({<<"swap order book", match.BaseSymbol>>})
    ELSE
      LET marginPrice == ParseFloat(match.Margin.MarkPx)
      IN  IF marginPrice.err \/ FLe(marginPrice.val, Zero) THEN Skip({})
          ELSE
            LET tradeSizeBase == FDiv(config.TradeSizeUSD, marginPrice.val)
                marginBuy == CalculateWeightedPrice(marginBook, "buy", tradeSizeBase)
                marginSell == CalculateWeightedPrice(marginBook, "sell", tradeSizeBase)
                swapBuy == CalculateWeightedPrice(swapBook, "buy", tradeSizeBase)
                swapSell == CalculateWeightedPrice(swapBook, "sell", tradeSizeBase)
            IN  IF marginBuy.err THEN Skip({<<"margin buy price", match.BaseSymbol>>})
                ELSE IF marginSell.err THEN Skip({<<"margin sell price", match.BaseSymbol>>})
                ELSE IF swapBuy.err THEN Skip({<<"swap buy price", match.BaseSymbol>>})
                ELSE IF swapSell.err THEN Skip({<<"swap sell price", match.BaseSymbol>>})
                ELSE IF ~HasEnoughLiquidity(marginBuy.res, marginSell.res,
                                            swapBuy.res, swapSell.res)
                THEN Skip({})
                ELSE IF ExceedsSlippage(marginBuy.res, marginSell.res,
                                        swapBuy.res, swapSell.res, config)
                THEN Skip({})
                ELSE ChooseDirection(match, marginBuy.res, marginSell.res,
                                     swapBuy.res, swapSell.res)

-----------------------------------------------------------------------------
(* Fees and the printers *)

FeeInfo(spotTaker, swapTaker, marginBorrow) ==
    [SpotTaker |-> spotTaker, SwapTaker |-> swapTaker, MarginBorrow |-> marginBorrow]

\* an estimate that charges the borrow cost in both directions
EstimateFeesBorrowAlways(diff, feeInfo, rates) ==
    LET fee == FAdd(FMul(feeInfo.SpotTaker, Num(2)), FMul(feeInfo.SwapTaker, Num(2)))
        borrow == IF diff.BaseSymbol \in DOMAIN rates /\ FGt(rates[diff.BaseSymbol], Zero)
                  THEN rates[diff.BaseSymbol]
                  ELSE feeInfo.MarginBorrow
    IN  FAdd(fee, FMul(borrow, Num(1)))

\* diff needs BaseSymbol and TermStructure only; rates is a function from
\* currencies to float64
EstimateFees(diff, feeInfo, rates) ==
    LET fee == FAdd(FMul(feeInfo.SpotTaker, Num(2)), FMul(feeInfo.SwapTaker, Num(2)))
        borrow == IF diff.BaseSymbol \in DOMAIN rates /\ FGt(rates[diff.BaseSymbol], Zero)
                  THEN rates[diff.BaseSymbol]
                  ELSE feeInfo.MarginBorrow
    IN  IF diff.TermStructure = "Backwardation"
        THEN FAdd(fee, FMul(borrow, Num(1)))
        ELSE fee

\* m[k] of a Go map: the zero value when k is absent
MapGet(m, k, zero) == IF k \in DOMAIN m THEN m[k] ELSE zero

NoFunding == [Rate |-> Zero, TimeToFunding |-> 0]

\* the floor of both printers: 0.06 (percent)
ProfitFloor == Float(6, 100)

\* a profit that subtracts the fee fraction instead of the fee percentage
ActualProfitOfFraction(percentDiff, feeFraction) == FSub(percentDiff, feeFraction)

\* feesPct := fees * 100; actualProfit := PercentDiff - feesPct
ActualProfitOf(percentDiff, feeFraction) ==
    FSub(percentDiff, FMul(feeFraction, Num(100)))

\* the rows either printer writes for rs: the loop skips a result whose
\* actualProfit < 0.06
PrintedRows(rs, fundings, feesByBase) ==
    LET row(r) == [BaseSymbol    |-> r.BaseSymbol,
                   PercentDiff   |-> r.PercentDiff,
                   TermStructure |-> r.TermStructure,
                   Funding       |-> MapGet(fundings, r.BaseSymbol, NoFunding),
                   FeesPct       |-> FMul(MapGet(feesByBase, r.BaseSymbol, Zero), Num(100)),
                   ActualProfit  |-> ActualProfitOf(r.PercentDiff,
                                                    MapGet(feesByBase, r.BaseSymbol, Zero))]
        kept == SelectSeq(rs, LAMBDA r : ~FLt(row(r).ActualProfit, ProfitFloor))
    IN  [i \in 1..Len(kept) |-> row(kept[i])]

-----------------------------------------------------------------------------
(* Instrument IDs and the values the exchange is taken to answer with *)

BTCUSDT == <<"BTC", "USDT">>
ETHUSDT == <<"ETH", "USDT">>
SOLUSDT == <<"SOL", "USDT">>
BTCSWAP == <<"BTC", "USDT", "SWAP">>
ETHSWAP == <<"ETH", "USDT", "SWAP">>
SOLSWAP == <<"SOL", "USDT", "SWAP">>
BTCUSDSWAP == <<"BTC", "USD", "SWAP">>
EmptyID == <<"">>

EmptyMap == <<>>

-----------------------------------------------------------------------------
(* Bounded inputs of the pricer *)

MaxLevels == 2
MaxTradeHalves == 10

LevelPrices == {Num(100), Num(101)}
LevelSizes == {Num(1), Num(2)}
Levels == {OrderBookLevel(p, s) : p \in LevelPrices, s \in LevelSizes}

RECURSIVE SeqsUpTo(_, _)
SeqsUpTo(S, k) ==
    IF k = 0 THEN {<<>>}
    ELSE LET shorter == SeqsUpTo(S, k - 1)
         IN  shorter \cup {Append(q, x) : q \in {r \in shorter : Len(r) = k - 1}, x \in S}

BookSides == SeqsUpTo(Levels, MaxLevels)
Sides == {"buy", "sell", "hold"}
TradeSizes == {Float(k, 2) : k \in 0..MaxTradeHalves}

Pending == [err |-> FALSE, res |-> [Side |-> "pending"]]

-----------------------------------------------------------------------------
(* Flags and configuration of main *)

MaxTopN == 2

MinDiffs == {Zero, Float(24, 100)}

TradingConfig(tradeSizeUSD, maxSlippage) ==
    [TradeSizeUSD |-> tradeSizeUSD, MinLiquidityUSD |-> Num(10000),
     MaxSlippage |-> maxSlippage, OrderBookDepth |-> 20]

DefaultTradingConfig == TradingConfig(Num(200), Float(1, 2))

NothingFetched ==
    /\ marginMarkPrices = EmptyMap
    /\ swapMarkPrices = EmptyMap
    /\ marginInstruments = <<>>
    /\ swapInstruments = <<>>
    /\ fusedMargin = <<>>
    /\ fusedSwap = <<>>
    /\ matchingSymbols = <<>>
    /\ fees = FeeInfo(Zero, Zero, Zero)
    /\ borrowRates = EmptyMap

NoResults ==
    /\ diffs = <<>>
    /\ realResults = <<>>
    /\ filteredResults = <<>>
    /\ feesMap = EmptyMap
    /\ fundingMap = EmptyMap
    /\ idx = 1
    /\ marginOrderBook = NoBook
    /\ swapOrderBook = NoBook
    /\ results = <<>>
    /\ output = <<>>
    /\ warnings = {}

\* no CalculateWeightedPrice call of its own is under test
PricerIdle ==
    /\ orderBook = NoBook
    /\ side = "none"
    /\ tradeSize = Zero
    /\ wpResult = Pending

\* main has not run
MainIdle ==
    /\ pc = "idle"
    /\ useOrderBook = FALSE
    /\ topN = 0
    /\ minDiff = Zero
    /\ tradingConfig = DefaultTradingConfig
    /\ NothingFetched
    /\ NoResults

InitWP ==
    /\ MainIdle
    /\ orderBook \in {[InstID |-> BTCUSDT, Bids |-> b, Asks |-> a] :
                         b \in BookSides, a \in BookSides}
    /\ side \in Sides
    /\ tradeSize \in TradeSizes
    /\ wpResult = Pending

CallCalculateWeightedPrice ==
    /\ wpResult = Pending
    /\ wpResult' = CalculateWeightedPrice(orderBook, side, tradeSize)
    /\ UNCHANGED <<orderBook, side, tradeSize, mainVars>>

NextWP == CallCalculateWeightedPrice

SpecWP == InitWP /\ [][NextWP]_vars

-----------------------------------------------------------------------------
(* What the exchange answers in the runs of main *)

MarkPrice(instID, markPx) == [InstID |-> instID, MarkPx |-> markPx]

\* mark-price listings: FetchMarkPrices keys them by a non-empty InstID
MarginSnapshots ==
    {[id \in {BTCUSDT, ETHUSDT} |-> MarkPrice(id, "100")],
     [id \in {BTCUSDT} |-> MarkPrice(id, "100")]}

SwapSnapshots ==
    {[id \in {BTCSWAP, ETHSWAP} |-> MarkPrice(id, px[id])] :
        px \in [{BTCSWAP, ETHSWAP} -> {"", "99", "100.3", "101"}]}

\* instrument listings, with the markPx the listing itself carries
MarginListings ==
    {<<Instrument(BTCUSDT, b), Instrument(ETHUSDT, e)>> : b, e \in {"", "100"}}
    \cup {<<Instrument(ETHUSDT, "100"), Instrument(BTCUSDT, "100")>>,
          <<Instrument(BTCUSDT, "100")>>,
          <<Instrument(BTCUSDT, "0"), Instrument(ETHUSDT, "abc")>>}

SwapListings ==
    {<<Instrument(BTCSWAP, ""), Instrument(ETHSWAP, "")>>,
     <<Instrument(ETHSWAP, "")>>}

L(price, size) == OrderBookLevel(price, Num(size))

\* order books FetchOrderBook returns in the runs of main (before InstID)
MainMarginBooks == {Book(EmptyID, <<L(Num(99), 2)>>, <<L(Num(100), 2)>>)}

MainSwapBooks ==
    {Book(EmptyID, <<L(Num(101), 2)>>, <<L(Num(102), 2)>>),
     Book(EmptyID, <<L(Num(97), 2)>>, <<L(Num(98), 2)>>),
     Book(EmptyID, <<L(Float(1003, 10), 2)>>, <<L(Num(101), 2)>>),
     Book(EmptyID, <<L(Num(101), 1)>>, <<L(Num(102), 2)>>)}

\* taker rates the trade-fee endpoint answers with; 0 stands for a failed or
\* empty answer
ApiSpotTakers == {Zero, Float(8, 10000)}
ApiSwapTakers == {Zero}

BorrowRateMaps ==
    {EmptyMap, "BTC" :> Float(1, 10000), ("BTC" :> Zero) @@ ("ETH" :> Float(1, 100))}

FundingInfos == {[FundingRate |-> Float(1, 10000), TimeToFunding |-> 3600]}

-----------------------------------------------------------------------------
(* main *)

FetchFeeInfo(apiSpotTaker, apiSwapTaker) ==
    FeeInfo(IF apiSpotTaker = Zero THEN Float(1, 1000) ELSE apiSpotTaker,
            IF apiSwapTaker = Zero THEN Float(5, 10000) ELSE apiSwapTaker,
            Float(2, 10000))

Init ==
    /\ PricerIdle
    /\ useOrderBook \in BOOLEAN
    /\ topN \in 0..MaxTopN
    /\ minDiff \in MinDiffs
    /\ tradingConfig = DefaultTradingConfig
    /\ pc = IF useOrderBook THEN "marginInst" ELSE "marginMarks"
    /\ NothingFetched
    /\ NoResults

FetchMarginMarkPrices ==
    /\ pc = "marginMarks"
    /\ \/ /\ pc' = "fatal"
          /\ warnings' = warnings \cup {<<"fatal", "margin mark prices">>}
          /\ UNCHANGED marginMarkPrices
       \/ /\ marginMarkPrices' \in MarginSnapshots
          /\ pc' = "swapMarks"
          /\ UNCHANGED warnings
    /\ UNCHANGED <<wpVars, fusedVars, flagVars, swapMarkPrices, marginInstruments, swapInstruments,
                   matchingSymbols, fees, borrowRates, resultVars, arbVars, output>>

FetchSwapMarkPrices ==
    /\ pc = "swapMarks"
    /\ \/ /\ pc' = "fatal"
          /\ warnings' = warnings \cup {<<"fatal", "swap mark prices">>}
          /\ UNCHANGED swapMarkPrices
       \/ /\ swapMarkPrices' \in SwapSnapshots
          /\ pc' = "marginInst"
          /\ UNCHANGED warnings
    /\ UNCHANGED <<wpVars, fusedVars, flagVars, marginMarkPrices, marginInstruments, swapInstruments,
                   matchingSymbols, fees, borrowRates, resultVars, arbVars, output>>

FetchMarginInstruments ==
    /\ pc = "marginInst"
    /\ \/ /\ pc' = "fatal"
          /\ warnings' = warnings \cup {<<"fatal", "margin instruments">>}
          /\ UNCHANGED marginInstruments
       \/ /\ marginInstruments' \in MarginListings
          /\ pc' = "swapInst"
          /\ UNCHANGED warnings
    /\ UNCHANGED <<wpVars, fusedVars, flagVars, marginMarkPrices, swapMarkPrices, swapInstruments,
                   matchingSymbols, fees, borrowRates, resultVars, arbVars, output>>

\* a fetch whose failure is logged but does not stop the run
FetchSwapInstrumentsContinue ==
    /\ pc = "swapInst"
    /\ \/ /\ pc' = "match"
          /\ warnings' = warnings \cup {<<"fatal", "swap instruments">>}
          /\ UNCHANGED swapInstruments
       \/ /\ swapInstruments' \in SwapListings
          /\ pc' = "match"
          /\ UNCHANGED warnings
    /\ UNCHANGED <<wpVars, fusedVars, flagVars, marginMarkPrices, swapMarkPrices, marginInstruments,
                   matchingSymbols, fees, borrowRates, resultVars, arbVars, output>>

FetchSwapInstruments ==
    /\ pc = "swapInst"
    /\ \/ /\ pc' = "fatal"
          /\ warnings' = warnings \cup {<<"fatal", "swap instruments">>}
          /\ UNCHANGED swapInstruments
       \/ /\ swapInstruments' \in SwapListings
          /\ pc' = "match"
          /\ UNCHANGED warnings
    /\ UNCHANGED <<wpVars, fusedVars, flagVars, marginMarkPrices, swapMarkPrices, marginInstruments,
                   matchingSymbols, fees, borrowRates, resultVars, arbVars, output>>

\* order-book mode matches the listings as fetched; mark-price mode fuses
\* them with the mark prices first
\* a matcher that fuses the listings with the snapshots in both modes
MatchSymbolsFuseAlways ==
    /\ pc = "match"
    /\ fusedMargin' = FuseData(marginInstruments, marginMarkPrices)
    /\ fusedSwap' = FuseData(swapInstruments, swapMarkPrices)
    /\ matchingSymbols' \in FindMatchingSymbols(fusedMargin', fusedSwap')
    /\ pc' = IF useOrderBook THEN "arb" ELSE "diffs"
    /\ UNCHANGED <<wpVars, flagVars, marginMarkPrices, swapMarkPrices, marginInstruments,
                   swapInstruments, fees, borrowRates, resultVars, arbVars, output, warnings>>

MatchSymbols ==
    /\ pc = "match"
    /\ fusedMargin' = IF useOrderBook THEN <<>>
                      ELSE FuseData(marginInstruments, marginMarkPrices)
    /\ fusedSwap' = IF useOrderBook THEN <<>>
                    ELSE FuseData(swapInstruments, swapMarkPrices)
    /\ matchingSymbols' \in
         IF useOrderBook
         THEN FindMatchingSymbols(marginInstruments, swapInstruments)
         ELSE FindMatchingSymbols(fusedMargin', fusedSwap')
    /\ pc' = IF useOrderBook THEN "arb" ELSE "diffs"
    /\ UNCHANGED <<wpVars, flagVars, marginMarkPrices, swapMarkPrices, marginInstruments,
                   swapInstruments, fees, borrowRates, resultVars, arbVars, output, warnings>>

CalculateDiffs ==
    /\ pc = "diffs"
    /\ diffs' \in CalculateTopMarkPxDiffs(matchingSymbols, topN, minDiff)
    /\ warnings' = warnings \cup DiffWarnings(matchingSymbols, minDiff)
    /\ pc' = "feeInfo"
    /\ UNCHANGED <<wpVars, fusedVars, flagVars, fetchVars, realResults, filteredResults, feesMap,
                   fundingMap, arbVars, output>>

\* one iteration of the loop of CalculateRealArbitrageOpportunities; the swap
\* book is fetched only when the margin book arrived
\* an iteration that leaves the loop when a book cannot be fetched
ArbIterationStopOnFailure(marginBooks, swapBooks) ==
    /\ pc = "arb"
    /\ idx <= Len(matchingSymbols)
    /\ LET match == matchingSymbols[idx]
       IN  \E mb \in {[b EXCEPT !.InstID = match.Margin.InstID] : b \in marginBooks}
                        \cup {FetchFailed} :
           \E sb \in IF mb.failed THEN {NoBook}
                     ELSE {[b EXCEPT !.InstID = match.Swap.InstID] : b \in swapBooks}
                            \cup {FetchFailed} :
              LET ev == EvaluatePair(match, mb, sb, tradingConfig)
              IN  /\ marginOrderBook' = mb
                  /\ swapOrderBook' = sb
                  /\ results' = IF ev.emit THEN Append(results, ev.result) ELSE results
                  /\ warnings' = warnings \cup ev.warn
                  /\ idx' = IF mb.failed \/ sb.failed
                            THEN Len(matchingSymbols) + 1 ELSE idx + 1
    /\ UNCHANGED <<wpVars, fusedVars, pc, flagVars, fetchVars, resultVars, output>>

ArbIteration(marginBooks, swapBooks) ==
    /\ pc = "arb"
    /\ idx <= Len(matchingSymbols)
    /\ LET match == matchingSymbols[idx]
       IN  \E mb \in {[b EXCEPT !.InstID = match.Margin.InstID] : b \in marginBooks}
                        \cup {FetchFailed} :
           \E sb \in IF mb.failed THEN {NoBook}
                     ELSE {[b EXCEPT !.InstID = match.Swap.InstID] : b \in swapBooks}
                            \cup {FetchFailed} :
              LET ev == EvaluatePair(match, mb, sb, tradingConfig)
              IN  /\ marginOrderBook' = mb
                  /\ swapOrderBook' = sb
                  /\ results' = IF ev.emit THEN Append(results, ev.result) ELSE results
                  /\ warnings' = warnings \cup ev.warn
    /\ idx' = idx + 1
    /\ UNCHANGED <<wpVars, fusedVars, pc, flagVars, fetchVars, resultVars, output>>

\* the sort after the loop and the return to main
ArbReturn ==
    /\ pc = "arb"
    /\ idx > Len(matchingSymbols)
    /\ realResults' \in SortSliceDescending(results)
    /\ results' = <<>>
    /\ marginOrderBook' = NoBook
    /\ swapOrderBook' = NoBook
    /\ idx' = 1
    /\ pc' = "filter"
    /\ UNCHANGED <<wpVars, fusedVars, flagVars, fetchVars, diffs, filteredResults, feesMap,
                   fundingMap, output, warnings>>

\* a filter by minimum difference that leaves out the limit to top N
FilterResultsNoLimit ==
    /\ pc = "filter"
    /\ filteredResults' = SelectSeq(realResults, LAMBDA r : FGe(r.PercentDiff, minDiff))
    /\ pc' = "feeInfo"
    /\ UNCHANGED <<wpVars, fusedVars, flagVars, fetchVars, diffs, realResults, feesMap, fundingMap,
                   arbVars, output, warnings>>

\* "Filter by minimum difference" and "Limit to top N results"
FilterResults ==
    /\ pc = "filter"
    /\ filteredResults' =
         Truncate(SelectSeq(realResults, LAMBDA r : FGe(r.PercentDiff, minDiff)), topN)
    /\ pc' = "feeInfo"
    /\ UNCHANGED <<wpVars, fusedVars, flagVars, fetchVars, diffs, realResults, feesMap, fundingMap,
                   arbVars, output, warnings>>

FetchFees ==
    /\ pc = "feeInfo"
    /\ \E spot \in ApiSpotTakers, swap \in ApiSwapTakers :
          fees' = FetchFeeInfo(spot, swap)
    /\ pc' = "rates"
    /\ UNCHANGED <<wpVars, fusedVars, flagVars, marginMarkPrices, swapMarkPrices, marginInstruments,
                   swapInstruments, matchingSymbols, borrowRates, resultVars, arbVars,
                   output, warnings>>

\* the results main goes on with: diffs, or filteredResults in order-book mode
Ranked == IF useOrderBook THEN filteredResults ELSE diffs

\* order-book mode: "Calculate fees for each result"
FeesOfResults(rs, feeInfo, rates) ==
    [b \in {rs[i].BaseSymbol : i \in 1..Len(rs)} |->
        LET r == rs[Max({i \in 1..Len(rs) : rs[i].BaseSymbol = b})]
        IN  EstimateFees([BaseSymbol |-> r.BaseSymbol, TermStructure |-> r.TermStructure],
                         feeInfo, rates)]

\* a fetch whose failure leaves a rate for BTC in the map
FetchBorrowRatesStale ==
    /\ pc = "rates"
    /\ \/ /\ borrowRates' = ("BTC" :> Float(1, 10000))
          /\ warnings' = warnings \cup {<<"borrow rates", "">>}
       \/ /\ borrowRates' \in BorrowRateMaps
          /\ UNCHANGED warnings
    /\ feesMap' = IF useOrderBook THEN FeesOfResults(filteredResults, fees, borrowRates')
                  ELSE feesMap
    /\ pc' = "funding"
    /\ UNCHANGED <<wpVars, fusedVars, flagVars, marginMarkPrices, swapMarkPrices, marginInstruments,
                   swapInstruments, matchingSymbols, fees, diffs, realResults,
                   filteredResults, fundingMap, arbVars, output>>

FetchBorrowRates ==
    /\ pc = "rates"
    /\ \/ /\ borrowRates' = EmptyMap
          /\ warnings' = warnings \cup {<<"borrow rates", "">>}
       \/ /\ borrowRates' \in BorrowRateMaps
          /\ UNCHANGED warnings
    /\ feesMap' = IF useOrderBook THEN FeesOfResults(filteredResults, fees, borrowRates')
                  ELSE feesMap
    /\ pc' = "funding"
    /\ UNCHANGED <<wpVars, fusedVars, flagVars, marginMarkPrices, swapMarkPrices, marginInstruments,
                   swapInstruments, matchingSymbols, fees, diffs, realResults,
                   filteredResults, fundingMap, arbVars, output>>

\* "Find the swap instrument ID": the first match with the base symbol
SwapInstIDOf(baseSymbol) ==
    LET hits == {i \in 1..Len(matchingSymbols) : matchingSymbols[i].BaseSymbol = baseSymbol}
    IN  IF hits = {} THEN EmptyID
        ELSE matchingSymbols[CHOOSE i \in hits : \A j \in hits : i <= j].Swap.InstID

\* one iteration of the funding loop; mark-price mode estimates the fee in it
FundingIteration ==
    /\ pc = "funding"
    /\ idx <= Len(Ranked)
    /\ LET r == Ranked[idx]
       IN  IF SwapInstIDOf(r.BaseSymbol) = EmptyID
           THEN UNCHANGED <<fundingMap, feesMap>>
           ELSE /\ \/ fundingMap' = (r.BaseSymbol :> NoFunding) @@ fundingMap
                   \/ \E f \in FundingInfos :
                         fundingMap' = (r.BaseSymbol :>
                             [Rate |-> f.FundingRate, TimeToFunding |-> f.TimeToFunding])
                             @@ fundingMap
                /\ feesMap' = IF useOrderBook THEN feesMap
                              ELSE (r.BaseSymbol :> EstimateFees(r, fees, borrowRates))
                                   @@ feesMap
    /\ idx' = idx + 1
    /\ UNCHANGED <<wpVars, fusedVars, pc, flagVars, fetchVars, diffs, realResults, filteredResults,
                   marginOrderBook, swapOrderBook, results, output, warnings>>

\* PrintTopMarkPxDiffsWithFundingAndFees or PrintRealArbitrageResults
PrintResults ==
    /\ pc = "funding"
    /\ idx > Len(Ranked)
    /\ output' = PrintedRows(Ranked, fundingMap, feesMap)
    /\ pc' = "done"
    /\ UNCHANGED <<wpVars, fusedVars, flagVars, fetchVars, resultVars, arbVars, warnings>>

Next ==
    \/ FetchMarginMarkPrices
    \/ FetchSwapMarkPrices
    \/ FetchMarginInstruments
    \/ FetchSwapInstruments
    \/ MatchSymbols
    \/ CalculateDiffs
    \/ ArbIteration(MainMarginBooks, MainSwapBooks)
    \/ ArbReturn
    \/ FilterResults
    \/ FetchFees
    \/ FetchBorrowRates
    \/ FundingIteration
    \/ PrintResults

Spec == Init /\ [][Next]_vars

-----------------------------------------------------------------------------
(* The matcher and the diff engine on three pairs: mark-price mode from the
   call of FuseData to the return of CalculateTopMarkPxDiffs *)

DiffMarginListings ==
    {<<Instrument(BTCUSDT, ""), Instrument(ETHUSDT, ""), Instrument(SOLUSDT, "")>>,
     <<Instrument(ETHUSDT, ""), Instrument(BTCUSDT, "")>>}

\* the swap listing is fetched for every quote currency, so one base asset can
\* be listed more than once; an instrument may carry a markPx of its own
DiffSwapListings ==
    {<<Instrument(BTCSWAP, ""), Instrument(ETHSWAP, ""), Instrument(SOLSWAP, "")>>,
     <<Instrument(BTCSWAP, ""), Instrument(ETHSWAP, "")>>,
     <<Instrument(BTCUSDSWAP, "99"), Instrument(BTCSWAP, "101"), Instrument(ETHSWAP, "101")>>,
     <<Instrument(BTCSWAP, ""), Instrument(BTCUSDSWAP, "99"), Instrument(ETHSWAP, "101")>>}

DiffMarginSnapshots ==
    {[id \in {BTCUSDT, ETHUSDT, SOLUSDT} |-> MarkPrice(id, "100")],
     [id \in {BTCUSDT, ETHUSDT, SOLUSDT} |->
         MarkPrice(id, IF id = SOLUSDT THEN "-1" ELSE "100")],
     [id \in {BTCUSDT, ETHUSDT} |-> MarkPrice(id, "100")]}

DiffSwapSnapshots ==
    {[id \in {BTCSWAP, ETHSWAP, SOLSWAP} |->
         MarkPrice(id, IF id = BTCSWAP THEN b ELSE IF id = ETHSWAP THEN e ELSE o)] :
        b \in {"", "99", "100", "101"},
        e \in {"abc", "0", "100.3", "101"},
        o \in {"0", "100", "101"}}

InitDiff ==
    /\ PricerIdle
    /\ useOrderBook = FALSE
    /\ topN \in 0..MaxTopN
    /\ minDiff \in MinDiffs
    /\ tradingConfig = DefaultTradingConfig
    /\ pc = "match"
    /\ marginMarkPrices \in DiffMarginSnapshots
    /\ swapMarkPrices \in DiffSwapSnapshots
    /\ marginInstruments \in DiffMarginListings
    /\ swapInstruments \in DiffSwapListings
    /\ fusedMargin = <<>>
    /\ fusedSwap = <<>>
    /\ matchingSymbols = <<>>
    /\ fees = FeeInfo(Zero, Zero, Zero)
    /\ borrowRates = EmptyMap
    /\ NoResults

NextDiff ==
    \/ MatchSymbols
    \/ CalculateDiffs

SpecDiff == InitDiff /\ [][NextDiff]_vars

-----------------------------------------------------------------------------
(* The evaluator on one matched pair: CalculateRealArbitrageOpportunities
   from its entry to its return *)

ArbAsks ==
    {<<L(Num(100), 2)>>, <<L(Num(100), 1), L(Num(101), 1)>>, <<L(Num(100), 1)>>,
     <<L(Num(101), 2)>>, <<L(Num(99), 2)>>, <<L(Num(102), 2)>>, <<>>}

ArbBids ==
    {<<L(Num(99), 2)>>, <<L(Num(99), 1), L(Num(98), 1)>>, <<L(Num(99), 1)>>,
     <<L(Num(100), 2)>>, <<L(Num(101), 2)>>, <<L(Num(98), 2)>>, <<>>}

ArbBooks == {Book(EmptyID, b, a) : b \in ArbBids, a \in ArbAsks}

ArbConfigs ==
    {TradingConfig(usd, slip) : usd \in {Zero, Num(100), Num(200)},
                                slip \in {Float(1, 2), Float(1, 4)}}

ArbMatches ==
    {<<MatchingSymbol("BTC", Instrument(BTCUSDT, px), Instrument(BTCSWAP, ""))>> :
        px \in {"100", "", "0", "-1"}}

InitArb ==
    /\ PricerIdle
    /\ useOrderBook = TRUE
    /\ topN = MaxTopN
    /\ minDiff = Zero
    /\ tradingConfig \in ArbConfigs
    /\ pc = "arb"
    /\ marginMarkPrices = EmptyMap
    /\ swapMarkPrices = EmptyMap
    /\ matchingSymbols \in ArbMatches
    /\ marginInstruments = <<matchingSymbols[1].Margin>>
    /\ swapInstruments = <<matchingSymbols[1].Swap>>
    /\ fusedMargin = <<>>
    /\ fusedSwap = <<>>
    /\ fees = FeeInfo(Zero, Zero, Zero)
    /\ borrowRates = EmptyMap
    /\ NoResults

NextArb ==
    \/ ArbIteration(ArbBooks, ArbBooks)
    \/ ArbReturn

SpecArb == InitArb /\ [][NextArb]_vars

-----------------------------------------------------------------------------
(* FetchOrderBook on one instrument, followed by the pricer on the book it
   returned: the response carries up to MaxRawLevels levels a side *)

MaxRawLevels == 2

RawPrices == {"100", "99", "abc"}
RawSizes == {"1", "0"}

\* a level with price and size, or a short level with the price alone
RawLevels == {<<p, z>> : p \in RawPrices, z \in RawSizes} \cup {<<"100">>}

RawSides == SeqsUpTo(RawLevels, MaxRawLevels)

InitBook ==
    /\ MainIdle
    /\ orderBook = NoBook
    /\ side \in {"buy", "sell"}
    /\ tradeSize = Num(1)
    /\ wpResult = Pending

\* transport failure, non-"0" code or empty data give an error; otherwise both
\* sides of data[0] are parsed and returned as they are
FetchOrderBook ==
    /\ orderBook = NoBook
    /\ \/ orderBook' = FetchFailed
       \/ \E rawBids \in RawSides, rawAsks \in RawSides :
             orderBook' = OrderBookOf(BTCUSDT, rawBids, rawAsks)
    /\ UNCHANGED <<side, tradeSize, wpResult, mainVars>>

PriceFetchedBook ==
    /\ orderBook # NoBook
    /\ ~orderBook.failed
    /\ CallCalculateWeightedPrice

NextBook == FetchOrderBook \/ PriceFetchedBook

SpecBook == InitBook /\ [][NextBook]_vars

-----------------------------------------------------------------------------
(* Properties of CalculateWeightedPrice, checked under SpecWP *)

Returned == wpResult # Pending

RECURSIVE TotalSize(_)
TotalSize(levels) ==
    IF levels = <<>> THEN Zero ELSE FAdd(levels[1].Size, TotalSize(Tail(levels)))

FMin(x, y) == IF FLt(x, y) THEN x ELSE y
FMax(x, y) == IF FLt(x, y) THEN y ELSE x

\* the size taken from level i when size is requested: what is left of the
\* request after the levels before i, capped by the level's own size
SizeFilled(levels, i, size) ==
    FMin(levels[i].Size, FMax(Zero, FSub(size, TotalSize(SubSeq(levels, 1, i - 1)))))

RECURSIVE CostOfFill(_, _, _)
CostOfFill(levels, i, size) ==
    IF i > Len(levels) THEN Zero
    ELSE FAdd(FMul(levels[i].Price, SizeFilled(levels, i, size)),
              CostOfFill(levels, i + 1, size))

Relevant == IF side = "buy" THEN orderBook.Asks ELSE orderBook.Bids

Shortfall ==
    /\ Returned
    /\ side \in {"buy", "sell"}
    /\ Relevant # <<>>
    /\ FGt(tradeSize, TotalSize(Relevant))

\* C4: a request larger than the total size of a non-empty relevant side
\* returns, without error, HasEnoughLiquidity = FALSE and WeightedPrice = 0,
\* whatever was filled on the way.
C4_InsufficientLiquidity ==
    Shortfall =>
        /\ ~wpResult.err
        /\ ~wpResult.res.HasEnoughLiquidity
        /\ wpResult.res.WeightedPrice = Zero

\* Scenario 4 with a level that was filled: asks [(100,1)], buy 5
C4_Witness ==
    /\ Shortfall
    /\ side = "buy"
    /\ orderBook.Asks = <<OrderBookLevel(Num(100), Num(1))>>
    /\ tradeSize = Num(5)
    /\ wpResult.res.Liquidity = Num(100)

Sufficient ==
    /\ Returned
    /\ side \in {"buy", "sell"}
    /\ Relevant # <<>>
    /\ FLe(tradeSize, TotalSize(Relevant))

\* C5: when the relevant side holds the requested size, the result has
\* TotalCost = Liquidity = sum over the levels of price * min(level size,
\* remaining size), WeightedPrice = TotalCost / requested size,
\* HasEnoughLiquidity = TRUE, and slippage (weighted - best) / best * 100 for a
\* buy, (best - weighted) / best * 100 for a sell, best being the first level.
C5_WeightedPrice ==
    Sufficient =>
        LET cost == CostOfFill(Relevant, 1, tradeSize)
            weighted == FDiv(cost, tradeSize)
            best == Relevant[1].Price
        IN  /\ ~wpResult.err
            /\ wpResult.res.HasEnoughLiquidity
            /\ wpResult.res.TotalCost = cost
            /\ wpResult.res.Liquidity = cost
            /\ wpResult.res.WeightedPrice = weighted
            /\ side = "buy" =>
                 wpResult.res.Slippage = FMul(FDiv(FSub(weighted, best), best), Num(100))
            /\ side = "sell" =>
                 wpResult.res.Slippage = FMul(FDiv(FSub(best, weighted), best), Num(100))

\* Scenario 3: asks [(100,1),(101,2)], buy 2 gives 201, 100.5 and 0.5 %
C5_Witness ==
    /\ Sufficient
    /\ side = "buy"
    /\ orderBook.Asks = <<OrderBookLevel(Num(100), Num(1)), OrderBookLevel(Num(101), Num(2))>>
    /\ tradeSize = Num(2)
    /\ wpResult.res.TotalCost = Num(201)
    /\ wpResult.res.Liquidity = Num(201)
    /\ wpResult.res.WeightedPrice = Float(201, 2)
    /\ wpResult.res.Slippage = Float(1, 2)

\* C6: a requested size of zero on a non-empty relevant side returns the best
\* price as WeightedPrice, with zero slippage and zero liquidity.
C6_ZeroSizeBestPrice ==
    (Returned /\ side \in {"buy", "sell"} /\ Relevant # <<>> /\ tradeSize = Zero) =>
        /\ ~wpResult.err
        /\ wpResult.res.WeightedPrice = Relevant[1].Price
        /\ wpResult.res.Slippage = Zero
        /\ wpResult.res.Liquidity = Zero

\* C7: buy reads only the asks and sell only the bids (the result is the one
\* the same call returns with the other side emptied); the call fails,
\* returning no result, exactly when the side it reads is empty or the side is
\* neither buy nor sell.
C7_SideSelection ==
    Returned =>
        /\ side = "buy" =>
             /\ wpResult.err <=> orderBook.Asks = <<>>
             /\ CalculateWeightedPrice([orderBook EXCEPT !.Bids = <<>>], side, tradeSize)
                  = wpResult
        /\ side = "sell" =>
             /\ wpResult.err <=> orderBook.Bids = <<>>
             /\ CalculateWeightedPrice([orderBook EXCEPT !.Asks = <<>>], side, tradeSize)
                  = wpResult
        /\ side \notin {"buy", "sell"} => wpResult.err
        /\ wpResult.err => wpResult.res = NoResult

\* a buy fails on empty asks although the bids have levels
C7_Witness ==
    /\ Returned
    /\ side = "buy"
    /\ orderBook.Asks = <<>>
    /\ orderBook.Bids # <<>>
    /\ wpResult.err

-----------------------------------------------------------------------------
(* Properties of the evaluator, checked under SpecArb *)

\* the pair of the run and the size CalculateRealArbitrageOpportunities trades
ThePair == matchingSymbols[1]
PairPrice == ParseFloat(ThePair.Margin.MarkPx)
TradeSizeBase == FDiv(tradingConfig.TradeSizeUSD, PairPrice.val)

\* the iteration for the pair is over and got as far as pricing the legs
Priced ==
    /\ pc = "arb" /\ idx = 2
    /\ ~marginOrderBook.failed /\ ~swapOrderBook.failed
    /\ ~PairPrice.err /\ FGt(PairPrice.val, Zero)

MarginBuy == CalculateWeightedPrice(marginOrderBook, "buy", TradeSizeBase)
MarginSell == CalculateWeightedPrice(marginOrderBook, "sell", TradeSizeBase)
SwapBuy == CalculateWeightedPrice(swapOrderBook, "buy", TradeSizeBase)
SwapSell == CalculateWeightedPrice(swapOrderBook, "sell", TradeSizeBase)
FourLegs == {MarginBuy, MarginSell, SwapBuy, SwapSell}

LegOk(leg) ==
    /\ ~leg.err
    /\ leg.res.HasEnoughLiquidity
    /\ ~FGt(leg.res.Slippage, tradingConfig.MaxSlippage)

PassedChecks == Priced /\ \A leg \in FourLegs : LegOk(leg)

\* 100 * (sell - buy) / mean(sell, buy)
PercentOf(sell, buy) ==
    FDiv(FMul(Num(100), FSub(sell, buy)), FDiv(FAdd(sell, buy), Num(2)))

ContangoPct == PercentOf(SwapSell.res.WeightedPrice, MarginBuy.res.WeightedPrice)
BackwardationPct == PercentOf(MarginSell.res.WeightedPrice, SwapBuy.res.WeightedPrice)

Emitted(contango) ==
    /\ Len(results) = 1
    /\ results[1].IsContango = contango
    /\ results[1].TermStructure = (IF contango THEN "Contango" ELSE "Backwardation")
    /\ results[1].PercentDiff = (IF contango THEN ContangoPct ELSE BackwardationPct)
    /\ results[1].ActualDiff =
         (IF contango
          THEN FSub(SwapSell.res.WeightedPrice, MarginBuy.res.WeightedPrice)
          ELSE FSub(MarginSell.res.WeightedPrice, SwapBuy.res.WeightedPrice))

\* C2: for a pair that passed the liquidity and slippage checks the evaluator
\* emits the candidate with the larger positive percent (its direction,
\* PercentDiff and ActualDiff), emits nothing when neither percent is
\* positive, and so every emitted result has PercentDiff > 0
C2_LargerPositivePercent ==
    /\ PassedChecks =>
         /\ (FGt(ContangoPct, Zero) /\ FGt(ContangoPct, BackwardationPct)) => Emitted(TRUE)
         /\ (FGt(BackwardationPct, Zero) /\ FGt(BackwardationPct, ContangoPct))
               => Emitted(FALSE)
         /\ (FGt(ContangoPct, Zero) /\ ContangoPct = BackwardationPct)
               => (Emitted(TRUE) \/ Emitted(FALSE))
         /\ (~FGt(ContangoPct, Zero) /\ ~FGt(BackwardationPct, Zero)) => results = <<>>
    /\ \A i \in 1..Len(results) : FGt(results[i].PercentDiff, Zero)
    /\ \A i \in 1..Len(realResults) : FGt(realResults[i].PercentDiff, Zero)

\* both percents are positive, backwardation is the larger one and is emitted
C2_Witness ==
    /\ PassedChecks
    /\ FGt(ContangoPct, Zero)
    /\ FGt(BackwardationPct, ContangoPct)
    /\ Emitted(FALSE)

\* C3: no result is emitted for a pair when one of its four legs lacks
\* liquidity or has a slippage above MaxSlippage; every emitted result comes
\* from a pair whose four legs, the two unused ones included, all passed
C3_AllFourLegsChecked ==
    /\ (Priced /\ \E leg \in FourLegs : ~LegOk(leg)) => results = <<>>
    /\ (pc = "arb" /\ idx = 2 /\ results # <<>>) => PassedChecks

\* backwardation would pay and its two legs pass, but the swap sell leg, which
\* backwardation does not use, lacks liquidity: nothing is emitted
C3_Witness ==
    /\ Priced
    /\ LegOk(MarginBuy) /\ LegOk(MarginSell) /\ LegOk(SwapBuy)
    /\ ~SwapSell.err /\ ~SwapSell.res.HasEnoughLiquidity
    /\ FGt(BackwardationPct, Zero)
    /\ results = <<>>

-----------------------------------------------------------------------------
(* Properties of the ranking, checked under SpecDiff *)

FusedMargin == FuseData(marginInstruments, marginMarkPrices)
FusedSwap == FuseData(swapInstruments, swapMarkPrices)

\* a matched pair that passes the filters of CalculateTopMarkPxDiffs
IsCandidate(match) ==
    LET m == ParseFloat(match.Margin.MarkPx)
        w == ParseFloat(match.Swap.MarkPx)
    IN  /\ ~m.err /\ ~w.err
        /\ FGt(m.val, Zero) /\ FGt(w.val, Zero)
        /\ FGe(PercentDiffOf(m.val, w.val), minDiff)

CandidateBases ==
    {matchingSymbols[i].BaseSymbol :
        i \in {j \in 1..Len(matchingSymbols) : IsCandidate(matchingSymbols[j])}}

CandidatePercent(base) ==
    LET match == matchingSymbols[CHOOSE i \in 1..Len(matchingSymbols) :
                                    matchingSymbols[i].BaseSymbol = base]
    IN  PercentDiffOf(ParseFloat(match.Margin.MarkPx).val, ParseFloat(match.Swap.MarkPx).val)

IncludedBases == {diffs[i].BaseSymbol : i \in 1..Len(diffs)}

Min(a, b) == IF a < b THEN a ELSE b

DiffsReturned == pc = "feeInfo" /\ ~useOrderBook

\* C9: CalculateTopMarkPxDiffs returns min(topN, number of candidates)
\* entries, each a distinct candidate that passed the filters, and no omitted
\* candidate has a PercentDiff strictly larger than an included one
C9_TopNBest ==
    DiffsReturned =>
      /\ Len(diffs) = Min(topN, Cardinality(CandidateBases))
      /\ Cardinality(IncludedBases) = Len(diffs)
      /\ IncludedBases \subseteq CandidateBases
      /\ \A i \in 1..Len(diffs) :
            diffs[i].PercentDiff = CandidatePercent(diffs[i].BaseSymbol)
      /\ \A o \in CandidateBases \ IncludedBases : \A b \in IncludedBases :
            ~FGt(CandidatePercent(o), CandidatePercent(b))

\* three candidates, two requested: one strictly worse candidate is left out
C9_Witness ==
    /\ DiffsReturned
    /\ topN = 2
    /\ Cardinality(CandidateBases) = 3
    /\ Len(diffs) = 2
    /\ \E o \in CandidateBases \ IncludedBases :
          FLt(CandidatePercent(o), diffs[2].PercentDiff)

\* C10: for the same instrument lists, topN and minDiff every run of
\* FindMatchingSymbols followed by CalculateTopMarkPxDiffs returns the same
\* sequence, whatever order the matcher emits the pairs in
C10_DeterministicRanking ==
    DiffsReturned =>
      \A matches \in FindMatchingSymbols(FusedMargin, FusedSwap) :
         \A ranked \in CalculateTopMarkPxDiffs(matches, topN, minDiff) :
            ranked = diffs

-----------------------------------------------------------------------------
(* Properties of main, checked under Spec *)

Descending(rs) ==
    \A i \in 1..(Len(rs) - 1) : FGe(rs[i].PercentDiff, rs[i + 1].PercentDiff)

StrictlyDescending(rs) ==
    \A i \in 1..(Len(rs) - 1) : FGt(rs[i].PercentDiff, rs[i + 1].PercentDiff)

\* the position of the pair of base in the slice both engines iterate over
InputPos(base) ==
    CHOOSE i \in 1..Len(matchingSymbols) : matchingSymbols[i].BaseSymbol = base

KeepsInputOrder(rs) ==
    \A i, j \in 1..Len(rs) :
       (i < j /\ rs[i].PercentDiff = rs[j].PercentDiff)
          => InputPos(rs[i].BaseSymbol) < InputPos(rs[j].BaseSymbol)

FeeFractionOf(r) == EstimateFees(r, fees, borrowRates)

Profitable(r) ==
    FGe(FSub(r.PercentDiff, FMul(FeeFractionOf(r), Num(100))), Float(6, 100))

PrintedBases == {output[j].BaseSymbol : j \in 1..Len(output)}

-----------------------------------------------------------------------------
(* Properties of the diff engine and the matcher, checked under SpecDiff *)

\* the matched pair a result was computed from
PairOf(base) ==
    matchingSymbols[CHOOSE i \in 1..Len(matchingSymbols) :
                       matchingSymbols[i].BaseSymbol = base]

Swapped(match) == [match EXCEPT !.Margin = match.Swap, !.Swap = match.Margin]

\* 100 * |a - b| / ((a + b) / 2)
SymmetricPercent(a, b) ==
    FDiv(FMul(Num(100), FAbs(FSub(a, b))), FDiv(FAdd(a, b), Num(2)))

\* C11: every result has actualDiff = swapPx - marginPx and
\* percentDiff = 100 * |marginPx - swapPx| / ((marginPx + swapPx) / 2);
\* exchanging the two prices keeps percentDiff and negates actualDiff;
\* margin 100 and swap 100.3 give actualDiff 0.3 and percentDiff 0.2996 (to
\* four decimals)
C11_PercentDiffSymmetric ==
    DiffsReturned =>
      \A i \in 1..Len(diffs) :
         LET d == diffs[i]
             match == PairOf(d.BaseSymbol)
             other == DiffOfMatch(Swapped(match), minDiff)
         IN  /\ d.MarginMarkPx = ParseFloat(match.Margin.MarkPx).val
             /\ d.SwapMarkPx = ParseFloat(match.Swap.MarkPx).val
             /\ d.ActualDiff = FSub(d.SwapMarkPx, d.MarginMarkPx)
             /\ d.PercentDiff = SymmetricPercent(d.MarginMarkPx, d.SwapMarkPx)
             /\ other.keep
             /\ other.diff.PercentDiff = d.PercentDiff
             /\ other.diff.ActualDiff = FNeg(d.ActualDiff)
             /\ (d.MarginMarkPx = Num(100) /\ d.SwapMarkPx = Float(1003, 10)) =>
                   /\ d.ActualDiff = Float(3, 10)
                   /\ FGt(d.PercentDiff, Float(29955, 100000))
                   /\ FLt(d.PercentDiff, Float(29965, 100000))

\* the pair of Scenario 1 is among the results
C11_Witness ==
    /\ DiffsReturned
    /\ \E i \in 1..Len(diffs) :
          /\ diffs[i].MarginMarkPx = Num(100)
          /\ diffs[i].SwapMarkPx = Float(1003, 10)
          /\ diffs[i].IsContango

\* the prices of the pair of base, as the engine parses them
MarginPxOf(base) == ParseFloat(PairOf(base).Margin.MarkPx).val
SwapPxOf(base) == ParseFloat(PairOf(base).Swap.MarkPx).val

\* C12: a result is Contango (IsContango true) exactly when
\* swapPx - marginPx > 0 and Backwardation otherwise, equal prices included;
\* IsContango and TermStructure always agree
C12_ContangoClassification ==
    DiffsReturned =>
      \A i \in 1..Len(diffs) :
         LET d == diffs[i]
             rising == FGt(FSub(SwapPxOf(d.BaseSymbol), MarginPxOf(d.BaseSymbol)), Zero)
         IN  /\ d.IsContango <=> rising
             /\ d.TermStructure = (IF rising THEN "Contango" ELSE "Backwardation")
             /\ d.TermStructure \in {"Contango", "Backwardation"}
             /\ d.IsContango <=> d.TermStructure = "Contango"

\* a pair with equal prices passed minDiff = 0 and is reported as Backwardation
C12_Witness ==
    /\ DiffsReturned
    /\ minDiff = Zero
    /\ \E i \in 1..Len(diffs) :
          /\ MarginPxOf(diffs[i].BaseSymbol) = SwapPxOf(diffs[i].BaseSymbol)
          /\ diffs[i].TermStructure = "Backwardation"
          /\ ~diffs[i].IsContango

MatchedBases == {matchingSymbols[i].BaseSymbol : i \in 1..Len(matchingSymbols)}

\* both prices of the pair are numbers
Parses(base) ==
    /\ ~ParseFloat(PairOf(base).Margin.MarkPx).err
    /\ ~ParseFloat(PairOf(base).Swap.MarkPx).err

NonPositivePrice(base) ==
    Parses(base) /\ (FLe(MarginPxOf(base), Zero) \/ FLe(SwapPxOf(base), Zero))

BelowMinDiff(base) ==
    /\ Parses(base) /\ ~NonPositivePrice(base)
    /\ FLt(SymmetricPercent(MarginPxOf(base), SwapPxOf(base)), minDiff)

\* C13: every result has marginPx > 0, swapPx > 0 and percentDiff >= minDiff;
\* a pair with a non-positive price on either venue or with
\* percentDiff < minDiff is never in the result
C13_PositivePricesAndMinDiff ==
    DiffsReturned =>
      /\ \A i \in 1..Len(diffs) :
            /\ FGt(diffs[i].MarginMarkPx, Zero)
            /\ FGt(diffs[i].SwapMarkPx, Zero)
            /\ FGe(diffs[i].PercentDiff, minDiff)
      /\ \A b \in MatchedBases :
            (NonPositivePrice(b) \/ BelowMinDiff(b)) => b \notin IncludedBases

\* one pair has a non-positive price, one is below minDiff, a third is returned
C13_Witness ==
    /\ DiffsReturned
    /\ Len(diffs) = 1
    /\ \E b \in MatchedBases : NonPositivePrice(b)
    /\ \E b \in MatchedBases : BelowMinDiff(b)

\* FindMatchingSymbols has returned, in mark-price mode on the fused lists
Matched == pc \in {"diffs", "feeInfo"} /\ ~useOrderBook

\* the base-asset key of an instrument: the part of its ID before the first "-"
KeyOf(inst) == inst.InstID[1]
KeysOf(insts) == {KeyOf(insts[i]) : i \in 1..Len(insts)}
InstrumentsOf(insts) == {insts[i] : i \in 1..Len(insts)}

\* C15: FindMatchingSymbols returns exactly one pair for each key that occurs
\* in both lists and none for any other key; no key appears twice and both
\* instruments of a pair have the pair's key
C15_OnePairPerCommonKey ==
    Matched =>
      /\ MatchedBases = KeysOf(fusedMargin) \cap KeysOf(fusedSwap)
      /\ Cardinality(MatchedBases) = Len(matchingSymbols)
      /\ \A i \in 1..Len(matchingSymbols) :
            LET pair == matchingSymbols[i]
            IN  /\ pair.Margin \in InstrumentsOf(fusedMargin)
                /\ pair.Swap \in InstrumentsOf(fusedSwap)
                /\ KeyOf(pair.Margin) = pair.BaseSymbol
                /\ KeyOf(pair.Swap) = pair.BaseSymbol

\* a margin instrument without a swap counterpart is left out, and a key
\* listed twice on the swap side gives one pair
C15_Witness ==
    /\ Matched
    /\ Len(fusedMargin) = 3
    /\ Len(matchingSymbols) = 2
    /\ KeysOf(fusedMargin) \ KeysOf(fusedSwap) # {}
    /\ Cardinality(KeysOf(fusedSwap)) < Len(fusedSwap)

\* the instrument of key that comes last in the list
LastOfKey(insts, key) ==
    insts[CHOOSE i \in 1..Len(insts) :
             /\ KeyOf(insts[i]) = key
             /\ \A j \in (i + 1)..Len(insts) : KeyOf(insts[j]) # key]

\* C16: when a venue lists several instruments with the same key, the pair
\* of that key carries the one that comes last in the venue's list
C16_LastInstrumentWins ==
    Matched =>
      \A i \in 1..Len(matchingSymbols) :
         /\ matchingSymbols[i].Margin = LastOfKey(fusedMargin, matchingSymbols[i].BaseSymbol)
         /\ matchingSymbols[i].Swap = LastOfKey(fusedSwap, matchingSymbols[i].BaseSymbol)

\* BTC is listed twice on the swap side; the pair has the later instrument and
\* not the earlier one
C16_Witness ==
    /\ Matched
    /\ \E i, j \in 1..Len(fusedSwap) :
          /\ i < j
          /\ KeyOf(fusedSwap[i]) = "BTC" /\ KeyOf(fusedSwap[j]) = "BTC"
          /\ fusedSwap[i] # fusedSwap[j]
          /\ PairOf("BTC").Swap = fusedSwap[j]
          /\ fusedSwap[j].InstID = BTCUSDSWAP

\* the snapshot has a non-empty price for the instrument
HasSnapshotPrice(inst, prices) ==
    inst.InstID \in DOMAIN prices /\ prices[inst.InstID].MarkPx # ""

\* fused is insts, one for one and in order, with MarkPx taken from prices
\* where prices has a non-empty one and every other field as it was
FusedFrom(insts, prices, fused) ==
    /\ Len(fused) = Len(insts)
    /\ \A i \in 1..Len(insts) :
          /\ fused[i].InstID = insts[i].InstID
          /\ fused[i].InstType = insts[i].InstType
          /\ DOMAIN fused[i] = DOMAIN insts[i]
          /\ fused[i].MarkPx = (IF HasSnapshotPrice(insts[i], prices)
                                THEN prices[insts[i].InstID].MarkPx
                                ELSE insts[i].MarkPx)

\* C17: the step that fuses returns one instrument per input instrument in
\* the same order, with MarkPx replaced exactly when the snapshot has a
\* non-empty price for the InstID and every other field unchanged, and leaves
\* the input lists and snapshots as they were
C17_FuseDataFrame ==
    [][pc = "match" =>
         /\ FusedFrom(marginInstruments, marginMarkPrices, fusedMargin')
         /\ FusedFrom(swapInstruments, swapMarkPrices, fusedSwap')
         /\ marginInstruments' = marginInstruments
         /\ swapInstruments' = swapInstruments
         /\ marginMarkPrices' = marginMarkPrices
         /\ swapMarkPrices' = swapMarkPrices]_vars

\* one swap instrument keeps its own price because the snapshot's is empty,
\* one has its price overwritten, and one has no snapshot entry at all
C17_Witness ==
    /\ Matched
    /\ \E i, j, k \in 1..Len(swapInstruments) :
          /\ swapInstruments[i].MarkPx # ""
          /\ swapInstruments[i].InstID \in DOMAIN swapMarkPrices
          /\ swapMarkPrices[swapInstruments[i].InstID].MarkPx = ""
          /\ fusedSwap[i].MarkPx = swapInstruments[i].MarkPx
          /\ swapInstruments[j].MarkPx # ""
          /\ HasSnapshotPrice(swapInstruments[j], swapMarkPrices)
          /\ fusedSwap[j].MarkPx # swapInstruments[j].MarkPx
          /\ swapInstruments[k].InstID \notin DOMAIN swapMarkPrices
          /\ fusedSwap[k] = swapInstruments[k]

-----------------------------------------------------------------------------
(* Further properties of the evaluator, checked under SpecArb *)

\* C14, in order-book mode: when the margin reference price of a pair does
\* not parse, the pair is skipped and a warning naming it is emitted
C14_ParseFailureWarns ==
    (/\ pc = "arb" /\ idx = 2
     /\ ~marginOrderBook.failed /\ ~swapOrderBook.failed
     /\ PairPrice.err)
       => /\ results = <<>>
          /\ \E w \in warnings : w[2] = ThePair.BaseSymbol

\* the result carries the liquidity and slippage of the legs margin and swap
FiguresOf(r, margin, swap) ==
    /\ r.MarginLiquidity = margin.res.Liquidity
    /\ r.MarginSlippage = margin.res.Slippage
    /\ r.SwapLiquidity = swap.res.Liquidity
    /\ r.SwapSlippage = swap.res.Slippage

\* C19: a Contango result carries the liquidity and slippage of the margin
\* buy leg and the swap sell leg, a Backwardation result those of the margin
\* sell leg and the swap buy leg
C19_FiguresOfUsedLegs ==
    (pc = "arb" /\ idx = 2 /\ results # <<>>) =>
       /\ Len(results) = 1
       /\ results[1].IsContango => FiguresOf(results[1], MarginBuy, SwapSell)
       /\ ~results[1].IsContango => FiguresOf(results[1], MarginSell, SwapBuy)

\* a Contango result of a pair whose buy and sell legs differ in liquidity
\* and slippage on the margin venue and in liquidity on the swap venue
C19_Witness ==
    /\ PassedChecks
    /\ Emitted(TRUE)
    /\ MarginBuy.res.Liquidity # MarginSell.res.Liquidity
    /\ MarginBuy.res.Slippage # MarginSell.res.Slippage
    /\ SwapBuy.res.Liquidity # SwapSell.res.Liquidity
    /\ FiguresOf(results[1], MarginBuy, SwapSell)

\* TradeSizeUSD / margin reference price
BaseQuantity == FDiv(tradingConfig.TradeSizeUSD, ParseFloat(ThePair.Margin.MarkPx).val)

\* the weighted price of trading BaseQuantity on one side of a book
PriceFor(book, s) == CalculateWeightedPrice(book, s, BaseQuantity).res.WeightedPrice

LegWarnings ==
    {w \in warnings : w[1] \in {"margin buy price", "margin sell price",
                                "swap buy price", "swap sell price"}}

\* C20: the four prices of a result are the weighted prices of the same base
\* quantity TradeSizeUSD / margin reference price on the four book sides; a
\* pair whose margin reference price is not positive gives no result and no
\* leg of it is priced
C20_SameBaseQuantity ==
    /\ (pc = "arb" /\ idx = 2 /\ results # <<>>) =>
          /\ results[1].MarginBuyPrice = PriceFor(marginOrderBook, "buy")
          /\ results[1].MarginSellPrice = PriceFor(marginOrderBook, "sell")
          /\ results[1].SwapBuyPrice = PriceFor(swapOrderBook, "buy")
          /\ results[1].SwapSellPrice = PriceFor(swapOrderBook, "sell")
    /\ (pc = "arb" /\ idx = 2 /\ ~PairPrice.err /\ FLe(PairPrice.val, Zero)) =>
          /\ results = <<>>
          /\ LegWarnings = {}

\* a result whose swap buy price is that of two units across two levels,
\* which one unit alone would not have paid
C20_Witness ==
    /\ PassedChecks
    /\ Emitted(FALSE)
    /\ BaseQuantity = Num(2)
    /\ Len(swapOrderBook.Asks) = 2
    /\ results[1].SwapBuyPrice = PriceFor(swapOrderBook, "buy")
    /\ results[1].SwapBuyPrice # swapOrderBook.Asks[1].Price

\* C21: no result is reported for a pair whose margin-leg or swap-leg
\* liquidity in USD is below TradingConfig.MinLiquidityUSD
C21_MinLiquidityRequired ==
    \A rs \in {results, realResults} :
       \A i \in 1..Len(rs) :
          /\ FGe(rs[i].MarginLiquidity, tradingConfig.MinLiquidityUSD)
          /\ FGe(rs[i].SwapLiquidity, tradingConfig.MinLiquidityUSD)

-----------------------------------------------------------------------------
(* Properties of FetchOrderBook, checked under SpecBook *)

\* levels sorted best-to-worst: bids descending, asks ascending by price
SortedBestToWorst(levels, bestIsHigh) ==
    \A i \in 1..(Len(levels) - 1) :
       IF bestIsHigh THEN FGe(levels[i].Price, levels[i + 1].Price)
       ELSE FLe(levels[i].Price, levels[i + 1].Price)

PositiveLevels(levels) ==
    \A i \in 1..Len(levels) : FGt(levels[i].Price, Zero) /\ FGt(levels[i].Size, Zero)

WellFormedBook(book) ==
    /\ SortedBestToWorst(book.Bids, TRUE)
    /\ SortedBestToWorst(book.Asks, FALSE)
    /\ PositiveLevels(book.Bids)
    /\ PositiveLevels(book.Asks)

\* C26: every order book FetchOrderBook returns has both sides sorted
\* best-to-worst (bids descending, asks ascending) and every level with
\* price > 0 and size > 0, whatever the level strings of the response were.
C26_FetchedBookWellFormed ==
    (orderBook # NoBook /\ ~orderBook.failed) => WellFormedBook(orderBook)

-----------------------------------------------------------------------------
(* Further properties of main, checked under Spec *)

\* 2 * SpotTaker + 2 * SwapTaker
RoundTripFee == FAdd(FAdd(fees.SpotTaker, fees.SpotTaker), FAdd(fees.SwapTaker, fees.SwapTaker))

HasBorrowOverride(base) ==
    base \in DOMAIN borrowRates /\ FGt(borrowRates[base], Zero)

HourlyBorrow(base) ==
    IF HasBorrowOverride(base) THEN borrowRates[base] ELSE fees.MarginBorrow

\* C18: the fee estimated for a Contango result is 2*SpotTaker + 2*SwapTaker
\* whatever the borrow rates are; for a Backwardation result one hour of
\* borrow is added, at the rate of borrowRates for the base symbol when that
\* is present and > 0 and at FeeInfo.MarginBorrow otherwise; SpotTaker 0.001
\* and SwapTaker 0.0005 give 0.003 for Contango
C18_EstimateFees ==
    pc = "done" =>
      \A i \in 1..Len(Ranked) :
         LET r == Ranked[i]
         IN  /\ r.BaseSymbol \in DOMAIN feesMap
             /\ r.TermStructure = "Contango" => feesMap[r.BaseSymbol] = RoundTripFee
             /\ r.TermStructure = "Backwardation" =>
                   feesMap[r.BaseSymbol] = FAdd(RoundTripFee, HourlyBorrow(r.BaseSymbol))
             /\ (/\ r.TermStructure = "Contango"
                 /\ fees.SpotTaker = Float(1, 1000)
                 /\ fees.SwapTaker = Float(5, 10000)) =>
                   feesMap[r.BaseSymbol] = Float(3, 1000)

\* a Backwardation result charged at its own borrow rate next to a Contango
\* result that is charged no borrow although a rate is listed for it
C18_Witness ==
    /\ pc = "done"
    /\ \E i, j \in 1..Len(Ranked) :
          /\ Ranked[i].TermStructure = "Backwardation"
          /\ HasBorrowOverride(Ranked[i].BaseSymbol)
          /\ borrowRates[Ranked[i].BaseSymbol] # fees.MarginBorrow
          /\ feesMap[Ranked[i].BaseSymbol] =
                FAdd(RoundTripFee, borrowRates[Ranked[i].BaseSymbol])
          /\ Ranked[j].TermStructure = "Contango"
          /\ Ranked[j].BaseSymbol \in DOMAIN borrowRates
          /\ feesMap[Ranked[j].BaseSymbol] = Float(3, 1000)

\* log.Fatalf was called for a failed fetch of a required list
FatalLogged == \E w \in warnings : w[1] = "fatal"

\* C22: once a required list fetch has failed the run is over and stays so:
\* nothing has been or is matched, fused, computed or printed
C22_FetchFailureAborts ==
    /\ FatalLogged <=> pc = "fatal"
    /\ FatalLogged =>
          /\ matchingSymbols = <<>>
          /\ fusedMargin = <<>> /\ fusedSwap = <<>>
          /\ diffs = <<>> /\ realResults = <<>> /\ filteredResults = <<>>
          /\ feesMap = EmptyMap /\ fundingMap = EmptyMap
          /\ output = <<>>

\* mark-price mode: the last of the four required fetches failed after the
\* other three had succeeded
C22_Witness ==
    /\ FatalLogged
    /\ ~useOrderBook
    /\ marginMarkPrices # EmptyMap
    /\ swapMarkPrices # EmptyMap
    /\ marginInstruments # <<>>
    /\ swapInstruments = <<>>
    /\ output = <<>>

\* the funding fetch for base failed: only then is the entry all zero
FundingFailed(base) == base \in DOMAIN fundingMap /\ fundingMap[base] = NoFunding

\* C23: a symbol whose funding fetch failed has rate 0 and time-to-funding 0,
\* a warning was emitted for it, and the run went on to print
C23_FundingFailureWarns ==
    pc = "done" =>
      \A b \in DOMAIN fundingMap :
         FundingFailed(b) => \E w \in warnings : w[2] = b

\* the warning of a failed FetchInterestRates was logged
BorrowRatesFailed == <<"borrow rates", "">> \in warnings

\* C24: after a failed borrow-rate fetch the run goes on with an empty
\* override map and a warning, and the fee of every result is what
\* EstimateFees gives with an empty map: Backwardation is charged
\* FeeInfo.MarginBorrow
C24_BorrowRateFailureDegrades ==
    BorrowRatesFailed =>
      /\ pc \in {"funding", "done"}
      /\ borrowRates = EmptyMap
      /\ pc = "done" =>
            \A i \in 1..Len(Ranked) :
               LET r == Ranked[i]
               IN  /\ feesMap[r.BaseSymbol] = EstimateFees(r, fees, EmptyMap)
                   /\ r.TermStructure = "Backwardation" =>
                         feesMap[r.BaseSymbol] = FAdd(RoundTripFee, fees.MarginBorrow)

\* the run finished after the failure and printed a Backwardation result
\* charged at the default borrow rate
C24_Witness ==
    /\ BorrowRatesFailed
    /\ pc = "done"
    /\ \E j \in 1..Len(output) : \E i \in 1..Len(Ranked) :
          /\ Ranked[i].BaseSymbol = output[j].BaseSymbol
          /\ Ranked[i].TermStructure = "Backwardation"
          /\ output[j].FeesPct = FMul(FAdd(RoundTripFee, fees.MarginBorrow), Num(100))

\* C25: an iteration of the evaluator whose margin or swap order book cannot
\* be fetched adds a warning naming the pair, leaves the results collected so
\* far as they are and goes on to the next pair
C25_BookFetchFailureSkipsPair ==
    [][(/\ pc = "arb" /\ idx <= Len(matchingSymbols)
        /\ (marginOrderBook'.failed \/ swapOrderBook'.failed))
         => /\ results' = results
            /\ realResults' = realResults
            /\ idx' = idx + 1
            /\ pc' = "arb"
            /\ warnings' = warnings \cup
                  {<<IF marginOrderBook'.failed THEN "margin order book"
                     ELSE "swap order book", matchingSymbols[idx].BaseSymbol>>}]_vars

\* the books of the first pair could not be fetched and the second pair
\* gave a result all the same
C25_Witness ==
    /\ pc = "arb"
    /\ idx = 3
    /\ Len(results) = 1
    /\ results[1].BaseSymbol = matchingSymbols[2].BaseSymbol
    /\ \E w \in warnings :
          /\ w[1] \in {"margin order book", "swap order book"}
          /\ w[2] = matchingSymbols[1].BaseSymbol

\* the matching has been done in this run
MatchingDone == pc \notin {"marginMarks", "swapMarks", "marginInst", "swapInst", "match", "fatal"}

\* the matched pair of base, as matchingSymbols holds it
MatchOf(base) ==
    CHOOSE m \in {matchingSymbols[i] : i \in 1..Len(matchingSymbols)} : m.BaseSymbol = base

\* the MarkPx the margin listing itself carries for an instrument
ListedMarkPx(instID) ==
    (CHOOSE k \in {marginInstruments[i] : i \in 1..Len(marginInstruments)} :
        k.InstID = instID).MarkPx

NoUsablePrice(markPx) ==
    ParseFloat(markPx).err \/ FLe(ParseFloat(markPx).val, Zero)

BasesOf(rs) == {rs[i].BaseSymbol : i \in 1..Len(rs)}

BookFetchWarnings == {"margin order book", "swap order book"}

\* the pair evaluated by the last iteration and the result it appended
LastEvaluated == matchingSymbols[idx - 1]
LastResult == results[Len(results)]

\* C27: in execution-price mode no snapshot is fetched and FuseData is never
\* applied: the matcher gets the fetched listings as they are, the trade size
\* of a result is TradeSizeUSD over the MarkPx of the margin listing itself,
\* and a pair whose listed margin MarkPx is empty, non-numeric or not positive
\* never yields a result and gets no warning once its books were fetched.
C27_ExecutionModeUsesListings ==
    useOrderBook =>
      /\ marginMarkPrices = EmptyMap
      /\ swapMarkPrices = EmptyMap
      /\ fusedMargin = <<>>
      /\ fusedSwap = <<>>
      /\ MatchingDone =>
            /\ matchingSymbols \in FindMatchingSymbols(marginInstruments, swapInstruments)
            /\ \A i \in 1..Len(matchingSymbols) :
                  LET m == matchingSymbols[i]
                  IN  NoUsablePrice(ListedMarkPx(m.Margin.InstID)) =>
                        /\ m.BaseSymbol \notin BasesOf(results) \cup BasesOf(realResults)
                              \cup BasesOf(filteredResults) \cup BasesOf(output)
                        /\ \A w \in warnings :
                              w[2] = m.BaseSymbol => w[1] \in BookFetchWarnings
      /\ (pc = "arb" /\ idx > 1 /\ results # <<>>
            /\ LastResult.BaseSymbol = LastEvaluated.BaseSymbol) =>
            LET size == FDiv(tradingConfig.TradeSizeUSD,
                             ParseFloat(ListedMarkPx(LastEvaluated.Margin.InstID)).val)
            IN  /\ LastResult.MarginBuyPrice =
                      CalculateWeightedPrice(marginOrderBook, "buy", size).res.WeightedPrice
                /\ LastResult.MarginLiquidity \in
                      {CalculateWeightedPrice(marginOrderBook, s, size).res.Liquidity :
                          s \in {"buy", "sell"}}

\* an execution-price run is over; one pair had no usable listed price and its
\* books were fetched, another pair was sized from its listing and printed
C27_Witness ==
    /\ useOrderBook
    /\ pc = "done"
    /\ Len(matchingSymbols) = 2
    /\ \E i \in 1..2 : NoUsablePrice(ListedMarkPx(matchingSymbols[i].Margin.InstID))
    /\ warnings = {}
    /\ Len(output) = 1
    /\ ~NoUsablePrice(ListedMarkPx(MatchOf(output[1].BaseSymbol).Margin.InstID))

\* the sorted results of the evaluator that reach minDiff, before the limit
FilteredRanking == SelectSeq(realResults, LAMBDA r : FGe(r.PercentDiff, minDiff))

\* out lists some of the results of rs, in the order rs has them
IsSubsequenceInOrder(out, rs) ==
    \E f \in [1..Len(out) -> 1..Len(rs)] :
       /\ \A j, k \in 1..Len(out) : j < k => f[j] < f[k]
       /\ \A j \in 1..Len(out) :
             /\ out[j].BaseSymbol = rs[f[j]].BaseSymbol
             /\ out[j].PercentDiff = rs[f[j]].PercentDiff
             /\ out[j].TermStructure = rs[f[j]].TermStructure

\* C28: in both modes the limit to topN is applied before the profitability
\* floor: the ranked list has at most topN results, all reaching minDiff; fees
\* and funding are computed for its pairs only; the output is a subsequence
\* of it in the same order, so it has at most topN rows and a pair ranked
\* beyond topN is never printed, whatever the floor removes above it.
C28_TruncationBeforeFloor ==
    /\ Len(Ranked) <= topN
    /\ \A i \in 1..Len(Ranked) : FGe(Ranked[i].PercentDiff, minDiff)
    /\ (useOrderBook /\ pc \in {"feeInfo", "rates", "funding", "done"}) =>
          filteredResults = Truncate(FilteredRanking, topN)
    /\ DOMAIN feesMap \subseteq BasesOf(Ranked)
    /\ DOMAIN fundingMap \subseteq BasesOf(Ranked)
    /\ Len(output) <= topN
    /\ pc = "done" =>
          /\ IsSubsequenceInOrder(output, Ranked)
          /\ useOrderBook =>
                \A i \in (topN + 1)..Len(FilteredRanking) :
                   FilteredRanking[i].BaseSymbol \notin PrintedBases

\* two pairs reached minDiff and the limit kept the first only; the floor
\* removed it, the second would have passed the floor, nothing is printed
C28_Witness ==
    /\ pc = "done"
    /\ useOrderBook
    /\ topN = 1
    /\ Len(FilteredRanking) = 2
    /\ ~Profitable(FilteredRanking[1])
    /\ Profitable(FilteredRanking[2])
    /\ DOMAIN feesMap = {FilteredRanking[1].BaseSymbol}
    /\ output = <<>>

-----------------------------------------------------------------------------
(* Properties of the evaluator on well-formed books, checked under SpecArb *)

\* both sides quoted and the best bid below the best ask
Uncrossed(book) ==
    /\ book.Bids # <<>>
    /\ book.Asks # <<>>
    /\ FLt(book.Bids[1].Price, book.Asks[1].Price)

\* the pair was priced on two well-formed, uncrossed books with a positive
\* trade size that every leg filled
FilledOnSoundBooks ==
    /\ Priced
    /\ WellFormedBook(marginOrderBook) /\ Uncrossed(marginOrderBook)
    /\ WellFormedBook(swapOrderBook) /\ Uncrossed(swapOrderBook)
    /\ FGt(TradeSizeBase, Zero)
    /\ \A leg \in FourLegs : ~leg.err /\ leg.res.HasEnoughLiquidity

ContangoValue == FSub(SwapSell.res.WeightedPrice, MarginBuy.res.WeightedPrice)
BackwardationValue == FSub(MarginSell.res.WeightedPrice, SwapBuy.res.WeightedPrice)

\* C29: for two order books sorted best-to-worst with positive prices and
\* sizes, neither of them crossed, and a trade size > 0 that all four legs
\* fill, the contango value swapSell - marginBuy and the backwardation value
\* marginSell - swapBuy are never both positive, in the four weighted prices
\* and in the prices a result carries.
C29_NotBothDirections ==
    FilledOnSoundBooks =>
      /\ ~(FGt(ContangoValue, Zero) /\ FGt(BackwardationValue, Zero))
      /\ \A i \in 1..Len(results) :
            ~(/\ FGt(FSub(results[i].SwapSellPrice, results[i].MarginBuyPrice), Zero)
              /\ FGt(FSub(results[i].MarginSellPrice, results[i].SwapBuyPrice), Zero))

\* a Contango result from sound books: the contango value is positive and the
\* backwardation value is negative
C29_Witness ==
    /\ FilledOnSoundBooks
    /\ Len(results) = 1
    /\ results[1].IsContango
    /\ FGt(ContangoValue, Zero)
    /\ FLt(BackwardationValue, Zero)

-----------------------------------------------------------------------------
(* Properties of CalculateWeightedPrice on a sorted side, checked under SpecWP *)

\* the level at which a walk of size over levels ends
LastTouched(levels, size) ==
    CHOOSE i \in 1..Len(levels) :
       /\ FGe(TotalSize(SubSeq(levels, 1, i)), size)
       /\ \A j \in 1..(i - 1) : FLt(TotalSize(SubSeq(levels, 1, j)), size)

\* the call returned for a positive size the relevant side holds, that side
\* being sorted best-to-worst with positive prices and sizes
FilledOnSortedSide ==
    /\ Sufficient
    /\ FGt(tradeSize, Zero)
    /\ SortedBestToWorst(Relevant, side = "sell")
    /\ PositiveLevels(Relevant)

\* C30: on a side sorted best-to-worst with positive prices and sizes, for a
\* requested size > 0 within the side's total, the slippage is >= 0 for buy
\* and sell, and the weighted price lies between the best price and the price
\* of the last level touched: not below the best ask for a buy, not above the
\* best bid for a sell.
C30_SlippageNonNegative ==
    FilledOnSortedSide =>
        LET best == Relevant[1].Price
            last == Relevant[LastTouched(Relevant, tradeSize)].Price
            weighted == wpResult.res.WeightedPrice
        IN  /\ ~wpResult.err
            /\ FGe(wpResult.res.Slippage, Zero)
            /\ side = "buy" => FGe(weighted, best) /\ FLe(weighted, last)
            /\ side = "sell" => FLe(weighted, best) /\ FGe(weighted, last)

\* a sell of 2 into bids [(101,1),(100,2)]: the price 100.5 is strictly between
\* the best bid and the second level, the slippage is positive
C30_Witness ==
    /\ FilledOnSortedSide
    /\ side = "sell"
    /\ orderBook.Bids = <<OrderBookLevel(Num(101), Num(1)), OrderBookLevel(Num(100), Num(2))>>
    /\ tradeSize = Num(2)
    /\ wpResult.res.WeightedPrice = Float(201, 2)
    /\ FGt(wpResult.res.Slippage, Zero)

=============================================================================
